---- MODULE Spec2Model ----
(***************************************************************************)
(* A model of the data pipeline of the cryptocurrency dashboard:           *)
(*   - the local store (database.py: save_data, get_historical_data),      *)
(*   - the market data client (api_service.py: make_api_request,           *)
(*     get_token_data, get_market_data, _get_token_id),                    *)
(*   - the functions that compute on series and texts (utils.py,           *)
(*     data_processor.py, ml_predictor.py, ai_analyzer.py).                *)
(* The program is single-threaded: one operation runs at a time.           *)
(***************************************************************************)
EXTENDS Integers, Sequences, FiniteSets, Bags, TLC

(***************************************************************************)
(* Bounds of the model.                                                    *)
(***************************************************************************)
\* the longest series handed to save_data
MaxLen == 2

(***************************************************************************)
(* ---------------------------- LOCAL STORE ------------------------------ *)
(* Time: an in-memory timestamp is <<second, microsecond>>; the store      *)
(* holds the text '%Y-%m-%d %H:%M:%S', which is the second alone. Texts of *)
(* that format compare as the seconds do.                                  *)
(***************************************************************************)
Tokens == {"BTC", "ETH"}
Seconds == {0, 1}
Micros == {0, 5}
Datetimes == {<<0, 0>>, <<0, 5>>, <<1, 0>>}
Prices == {1, 2}
Caps == {7}
Vols == {3}
Doms == {45}

\* shape of a table handed to save_data: exactly the base columns, the
\* normaliser's output (base and derived columns), or a required column
\* missing / the date column not a timestamp
Shapes == {"base", "derived", "broken"}

\* a point of a token series and of the market series, in memory
TokenPoints == [date : Datetimes, price : Prices, market_cap : Caps, volume : Vols]
MarketPoints == [date : Datetimes, market_cap : Caps, volume : Vols, btc_dominance : Doms]

SeqsUpTo(S, n) == UNION {[1..k -> S] : k \in 0..n}

VARIABLES
  db_init,      \* the four tables exist (init_database has run)
  market_tbl,   \* table market_data: a bag of rows
  token_tbl,    \* table token_data: a bag of rows
  db_pc,        \* position of save_data: "idle" or "tokens" (inside the token loop)
  db_done,      \* tokens of the dict already iterated by the running save_data
  db_ret,       \* what the last store operation gave its caller
  hist          \* prices handed to save_data for the observed key, last two calls

dbvars == <<db_init, market_tbl, token_tbl, db_pc, db_done, db_ret, hist>>

\* the market data client
VARIABLES
  api_op,       \* the operation running or last run: "idle", "request",
                \* "resolve", "token", "market"
  api_pc,       \* "done", or the request the operation waits for
  api_arg,      \* its arguments
  api_loc,      \* its local variables (resolved: calls of _get_token_id made;
                \* urls: the endpoints it has asked)
  api_ret,      \* what it gave its caller
  api_http,     \* HTTP requests issued since it began by make_api_request
                \* called on its own or by _get_token_id
  req_pc,       \* make_api_request: "none", "loop", "returned", "raised"
  req_url,      \* the endpoint asked
  req_retries,
  req_i,        \* the loop variable
  req_log,      \* gets and sleeps of the call, in order
  req_val       \* the value returned or the exception raised

apivars == <<api_op, api_pc, api_arg, api_loc, api_ret, api_http,
             req_pc, req_url, req_retries, req_i, req_log, req_val>>
reqvars == <<req_pc, req_url, req_retries, req_i, req_log, req_val>>

\* the computing functions: one call at a time
VARIABLES
  lib_op,       \* the function last called, "idle" before any call
  lib_arg,      \* its arguments
  lib_ret       \* what it gave its caller

libvars == <<lib_op, lib_arg, lib_ret>>
vars == <<dbvars, apivars, libvars>>

\* dt.strftime('%Y-%m-%d %H:%M:%S'): the microseconds are dropped
Strftime(dt) == dt[1]
\* pd.to_datetime of a stored text
ToDatetime(s) == <<s, 0>>

RECURSIVE BagOfSeq(_)
BagOfSeq(s) == IF s = <<>> THEN EmptyBag ELSE SetToBag({Head(s)}) (+) BagOfSeq(Tail(s))

MarketKey(r) == r.date
TokenKey(r) == <<r.token, r.date>>

\* PRIMARY KEY of a table: an INSERT of rows with the keys newKeys (a sequence)
\* into a table holding oldKeys is accepted iff no key is already held and no
\* key comes twice
NoPrimaryKey(oldKeys, newKeys) == TRUE
KeyWithinWrite(oldKeys, newKeys) == \A i, j \in DOMAIN newKeys : i # j => newKeys[i] # newKeys[j]
PrimaryKeyOk(oldKeys, newKeys) ==
  /\ \A i \in DOMAIN newKeys : newKeys[i] \notin oldKeys
  /\ \A i, j \in DOMAIN newKeys : i # j => newKeys[i] # newKeys[j]

\* df.to_sql(table, conn, if_exists='append', index=False) on a table that
\* exists: one INSERT of every row in one transaction, committed when all rows
\* are accepted and rolled back as a whole otherwise
ToSqlUndoAll(tbl, rows, keys, oldKeys) ==
  IF PrimaryKeyOk(oldKeys, keys)
  THEN [ok |-> TRUE, tbl |-> tbl (+) BagOfSeq(rows)]
  ELSE [ok |-> FALSE, tbl |-> EmptyBag]
ToSql(tbl, rows, keys, oldKeys) ==
  IF PrimaryKeyOk(oldKeys, keys)
  THEN [ok |-> TRUE, tbl |-> tbl (+) BagOfSeq(rows)]
  ELSE [ok |-> FALSE, tbl |-> tbl]

MarketRows(series) ==
  [i \in DOMAIN series |->
     [date |-> Strftime(series[i].date), market_cap |-> series[i].market_cap,
      volume |-> series[i].volume, btc_dominance |-> series[i].btc_dominance]]
TokenRows(token, series) ==
  [i \in DOMAIN series |->
     [token |-> token, date |-> Strftime(series[i].date), price |-> series[i].price,
      market_cap |-> series[i].market_cap, volume |-> series[i].volume]]
MarketKeysOf(rows) == [i \in DOMAIN rows |-> MarketKey(rows[i])]
TokenKeysOf(rows) == [i \in DOMAIN rows |-> TokenKey(rows[i])]
MarketKeys(tbl) == {MarketKey(r) : r \in BagToSet(tbl)}
TokenKeys(tbl) == {TokenKey(r) : r \in BagToSet(tbl)}

\* except Exception as e: print(...) -- the failure is logged, the call returns
\* (caught: the handler ran; raised: the caller saw an exception)
SaveReraises == [op |-> "save", caught |-> TRUE, raised |-> TRUE]
SaveExcept == [op |-> "save", caught |-> TRUE, raised |-> FALSE]
\* save_data has not returned yet
SaveRunning == [op |-> "running", caught |-> FALSE, raised |-> FALSE]
\* save_data fell off its end
SaveReturn == [op |-> "save", caught |-> FALSE, raised |-> FALSE]

\* the key whose writes hist records
WatchKey == <<"BTC", 0>>
WatchToken == WatchKey[1]
WatchDate == WatchKey[2]
\* hist after a write of series for token was asked: the price is recorded when
\* the series holds the observed key exactly once
Record(token, series) ==
  LET idx == {j \in DOMAIN series : token = WatchToken /\ Strftime(series[j].date) = WatchDate}
  IN IF Cardinality(idx) = 1
     THEN LET p == series[CHOOSE j \in idx : TRUE].price
          IN IF Len(hist) < 2 THEN Append(hist, p) ELSE <<hist[2], p>>
     ELSE hist

\* save_data, from its entry to the end of the market_data write
SaveBegin(up, market, shape) ==
  /\ db_pc = "idle"
  /\ UNCHANGED <<apivars, libvars>>
  /\ db_done' = {}
  /\ hist' = hist
  /\ IF ~up
     THEN \* get_db_connection raises: nothing was created or written
          /\ UNCHANGED <<db_init, market_tbl, token_tbl, db_pc>>
          /\ db_ret' = SaveExcept
     ELSE /\ db_init' = TRUE
          /\ token_tbl' = token_tbl
          /\ IF shape = "broken"
             THEN \* df_market['date'] is missing or has no .dt
                  /\ UNCHANGED <<market_tbl, db_pc>>
                  /\ db_ret' = SaveExcept
             ELSE LET rows == MarketRows(market)
                      w == ToSql(market_tbl, rows, MarketKeysOf(rows), MarketKeys(market_tbl))
                  IN IF shape = "derived" \/ ~w.ok
                     THEN \* the table has no such column, or a key is held already
                          /\ UNCHANGED <<market_tbl, db_pc>>
                          /\ db_ret' = SaveExcept
                     ELSE /\ market_tbl' = w.tbl
                          /\ db_pc' = "tokens"
                          /\ db_ret' = SaveRunning

\* one iteration of the loop over token_data.items()
SaveToken(token, series, shape) ==
  /\ db_pc = "tokens"
  /\ UNCHANGED <<apivars, libvars>>
  /\ token \notin db_done
  /\ db_done' = db_done \cup {token}
  /\ UNCHANGED <<db_init, market_tbl>>
  /\ IF shape = "broken"
     THEN /\ UNCHANGED <<token_tbl, hist>>
          /\ db_pc' = "idle"
          /\ db_ret' = SaveExcept
     ELSE LET rows == TokenRows(token, series)
              w == ToSql(token_tbl, rows, TokenKeysOf(rows), TokenKeys(token_tbl))
          IN /\ hist' = Record(token, series)
             /\ token_tbl' = w.tbl
             /\ IF w.ok
                THEN UNCHANGED <<db_pc, db_ret>>
                ELSE /\ db_pc' = "idle"
                     /\ db_ret' = SaveExcept

\* the dict is exhausted: conn.commit(), conn.close(), return
SaveCommit ==
  /\ db_pc = "tokens"
  /\ UNCHANGED <<apivars, libvars>>
  /\ db_pc' = "idle"
  /\ db_ret' = SaveReturn
  /\ UNCHANGED <<db_init, market_tbl, token_tbl, db_done, hist>>

\* ORDER BY date over the rows of a bag
RECURSIVE OrderByDate(_)
OrderByDate(bag) ==
  IF BagToSet(bag) = {} THEN <<>>
  ELSE LET r == CHOOSE x \in BagToSet(bag) : \A y \in BagToSet(bag) : x.date <= y.date
       IN <<r>> \o OrderByDate(bag (-) SetToBag({r}))

\* the date filter built from start_date and end_date (<<>>: not given, <<d>>:
\* the text d): both bounds inclusive, a missing bound unconstrained
HalfOpenDateFilter(start, end, d) ==
  /\ (start # <<>> => d >= start[1])
  /\ (end # <<>> => d < end[1])
DateFilter(start, end, d) ==
  /\ (start # <<>> => d >= start[1])
  /\ (end # <<>> => d <= end[1])

\* SELECT * FROM market_data WHERE <date filter>
WhereMarket(bag, start, end) ==
  LET S == {r \in BagToSet(bag) : DateFilter(start, end, r.date)}
  IN [r \in S |-> CopiesIn(r, bag)]

\* SELECT * FROM token_data WHERE token = ? AND <date filter>
WhereToken(bag, t, start, end) ==
  LET S == {r \in BagToSet(bag) : r.token = t /\ DateFilter(start, end, r.date)}
  IN [r \in S |-> CopiesIn(r, bag)]

\* pd.to_datetime over the date column of a query result
WithDatetimes(rows) == [i \in DOMAIN rows |-> [rows[i] EXCEPT !.date = ToDatetime(rows[i].date)]]

\* except Exception as e: print(...); return None, None
\* (none: the pair returned is (None, None))
LoadExcept ==
  [op |-> "load", caught |-> TRUE, raised |-> FALSE, none |-> TRUE, market |-> <<>>, tokens |-> <<>>]

\* what get_historical_data returns from tables that exist: the market rows,
\* and for each token of SELECT DISTINCT token its rows
Loaded(market, token, start, end) ==
  LET tokens == {r.token : r \in BagToSet(token)}
      OfToken(t) == WhereToken(token, t, start, end)
  IN [op |-> "load", caught |-> FALSE, raised |-> FALSE, none |-> FALSE,
      market |-> WithDatetimes(OrderByDate(WhereMarket(market, start, end))),
      tokens |-> [t \in tokens |-> WithDatetimes(OrderByDate(OfToken(t)))]]

\* get_historical_data(start_date, end_date)
GetHistoricalData(up, start, end) ==
  /\ db_pc = "idle"
  /\ UNCHANGED <<apivars, libvars>>
  /\ UNCHANGED <<db_init, market_tbl, token_tbl, db_pc, db_done, hist>>
  /\ IF ~up \/ ~db_init
     THEN \* no connection, or no such table
          db_ret' = LoadExcept
     ELSE db_ret' = Loaded(market_tbl, token_tbl, start, end)

NextStore ==
  \/ \E up \in BOOLEAN, sh \in Shapes :
       \* the rows matter only to a write that is reached
       \E m \in (IF up /\ sh = "base" THEN SeqsUpTo(MarketPoints, MaxLen) ELSE {<<>>}) :
          SaveBegin(up, m, sh)
  \/ \E t \in Tokens, sh \in Shapes :
       \E s \in (IF sh = "broken" THEN {<<>>} ELSE SeqsUpTo(TokenPoints, MaxLen)) :
          SaveToken(t, s, sh)
  \/ SaveCommit
  \/ \E up \in BOOLEAN, a, b \in {<<>>} \cup {<<d>> : d \in Seconds} : GetHistoricalData(up, a, b)

(***************************************************************************)
(* ------------------------- MARKET DATA CLIENT -------------------------- *)
(* Time: a timestamp is <<second, millisecond>>, second 0 being            *)
(* 2013-04-28 00:00:00; the provider's timestamps are milliseconds from    *)
(* the same origin. Durations of sleep are in half seconds.                *)
(***************************************************************************)
\* the most retries a direct call of make_api_request asks for
MaxRetries == 3
\* the longest list in a provider response
MaxPts == 2

\* retries=3, backoff_factor=0.5 (one half second)
DefaultRetries == 3
BackoffFactor == 1
\* random.uniform(0, 1): its ends
Jitters == {0, 2}
\* periods=30 of the mock series
FallbackPeriods == 30
DaySeconds == 86400
AllTimeStart == <<0, 0>>

Timeframes == {"24h", "7d", "30d", "90d", "1y", "All Time"}
\* datetime.now() of a call
Nows == {<<423403200, 500>>}

\* what one HTTP attempt meets: a 2xx answer with a JSON body, HTTP 429,
\* another HTTP error status, a failure with no response (timeout, connection
\* error), a 2xx answer whose body is not JSON
Outcomes == {"ok", "h429", "herr", "neterr", "badjson"}

\* a symbol is the sequence of its characters
LowerAlpha == <<"a", "b", "c", "d", "e", "f", "g", "h", "i", "j", "k", "l", "m", "n", "o", "p", "q", "r", "s", "t", "u", "v", "w", "x", "y", "z">>
UpperAlpha == <<"A", "B", "C", "D", "E", "F", "G", "H", "I", "J", "K", "L", "M", "N", "O", "P", "Q", "R", "S", "T", "U", "V", "W", "X", "Y", "Z">>
\* str.upper()
UpperChar(c) == IF \E i \in 1..26 : LowerAlpha[i] = c
                THEN UpperAlpha[CHOOSE i \in 1..26 : LowerAlpha[i] = c] ELSE c
Upper(sym) == [i \in DOMAIN sym |-> UpperChar(sym[i])]

\* symbol_to_id
SymbolToId == {
    <<<<"B", "T", "C">>, "bitcoin">>,
    <<<<"E", "T", "H">>, "ethereum">>,
    <<<<"B", "N", "B">>, "binancecoin">>,
    <<<<"X", "R", "P">>, "ripple">>,
    <<<<"A", "D", "A">>, "cardano">>,
    <<<<"S", "O", "L">>, "solana">>,
    <<<<"D", "O", "T">>, "polkadot">>,
    <<<<"D", "O", "G", "E">>, "dogecoin">>,
    <<<<"A", "V", "A", "X">>, "avalanche-2">>,
    <<<<"L", "I", "N", "K">>, "chainlink">>,
    <<<<"M", "A", "T", "I", "C">>, "matic-network">>,
    <<<<"L", "T", "C">>, "litecoin">>,
    <<<<"U", "N", "I">>, "uniswap">>,
    <<<<"A", "T", "O", "M">>, "cosmos">>,
    <<<<"E", "T", "C">>, "ethereum-classic">>,
    <<<<"X", "L", "M">>, "stellar">>,
    <<<<"A", "L", "G", "O">>, "algorand">>,
    <<<<"F", "I", "L">>, "filecoin">>,
    <<<<"V", "E", "T">>, "vechain">>,
    <<<<"T", "H", "E", "T", "A">>, "theta-token">> }
NoneId == "None"

InputSymbols == {<<"B","T","C">>, <<"b","t","c">>, <<"E","t","h">>,
                 <<"x","y","z">>, <<"N","O","P","E">>}
\* entries of the provider's coin list
Coins == {[id |-> "xyz-coin", symbol |-> <<"x","y","z">>],
          [id |-> "xyz-two", symbol |-> <<"X","Y","Z">>],
          [id |-> "wrapped-bitcoin", symbol |-> <<"b","t","c">>]}
\* provider timestamps (ms)
ChartTs == {1000, 1500}
HistTs == {1000, 86401000}

\* JSON bodies the provider may give, by endpoint
ListBodies == {[kind |-> "list", coins |-> l] : l \in SeqsUpTo(Coins, MaxPts)}
                 \cup {[kind |-> "object"]}
ChartBodies ==
  {[kind |-> "chart", prices |-> p, market_caps |-> c, total_volumes |-> v] :
      p \in SeqsUpTo(ChartTs \X {100}, MaxPts),
      c \in SeqsUpTo(ChartTs \X {7}, MaxPts),
      v \in SeqsUpTo(ChartTs \X {3}, MaxPts)}
  \cup {[kind |-> "object"]}
  \cup {[kind |-> "chart_no_caps", prices |-> p] : p \in SeqsUpTo(ChartTs \X {100}, MaxPts)}
HistoryBodies ==
  {[kind |-> "history", market_cap_by_date |-> l] : l \in SeqsUpTo(HistTs \X {0, 7}, MaxPts)}
  \cup {[kind |-> "object"]}
GlobalBodies == {[kind |-> "global", total_volume |-> 30, btc |-> 4500],
                 [kind |-> "global", total_volume |-> 30, btc |-> 8999],
                 [kind |-> "object"]}
AnyBodies == {[kind |-> "A"], [kind |-> "B"]}
Bodies(url) ==
  CASE url = "list" -> ListBodies
    [] url = "chart" -> ChartBodies
    [] url = "history" -> HistoryBodies
    [] url = "global" -> GlobalBodies
    [] OTHER -> AnyBodies

RECURSIVE Pow2(_)
Pow2(n) == IF n <= 0 THEN 1 ELSE 2 * Pow2(n - 1)

\* backoff_factor * (2 ** i) + random.uniform(0, 1)
FlatSleepTime(i, jitter) == BackoffFactor + jitter
SleepTime(i, jitter) == BackoffFactor * Pow2(i) + jitter

\* if i == retries - 1
NeverLastAttempt(i, retries) == i = retries
IsLastAttempt(i, retries) == i = retries - 1

\* hasattr(e.response, 'status_code') and e.response.status_code == 429
RetriesTransient(outcome) == outcome \in {"h429", "neterr"}
RetriesAnyStatus(outcome) == outcome \in {"h429", "herr"}
IsRateLimited(outcome) == outcome = "h429"

NoVal == [kind |-> "none"]
Running == [kind |-> "running"]
Idle == api_pc = "done" /\ req_pc # "loop"

\* entry of make_api_request: for i in range(retries)
CallRequestAtLeastOnce(url, retries) ==
  /\ req_url' = url
  /\ req_retries' = retries
  /\ req_i' = 0
  /\ req_log' = <<>>
  /\ req_val' = NoVal
  /\ req_pc' = "loop"
CallRequest(url, retries) ==
  /\ req_url' = url
  /\ req_retries' = retries
  /\ req_i' = 0
  /\ req_log' = <<>>
  /\ req_val' = NoVal
  /\ req_pc' = IF retries > 0 THEN "loop" ELSE "returned"

\* make_api_request has returned to a caller of this module: its frame is gone
EndRequest ==
  /\ req_url' = "any"
  /\ req_retries' = 0
  /\ req_i' = 0
  /\ req_log' = <<>>
  /\ req_val' = NoVal
  /\ req_pc' = "none"

\* one iteration of the loop of make_api_request, the attempt meeting outcome:
\* where the call stands afterwards
Iteration(i, retries, log, outcome, jitter, body) ==
  LET got == Append(log, [ev |-> "get", i |-> i, outcome |-> outcome, body |-> body])
      raise == [pc |-> "raised", val |-> [kind |-> "exception", of |-> outcome, i |-> i],
                log |-> got, i |-> i]
  IN IF outcome = "ok"
     THEN [pc |-> "returned", val |-> [kind |-> "json", body |-> body], log |-> got, i |-> i]
     ELSE IF IsLastAttempt(i, retries)
     THEN raise
     ELSE IF IsRateLimited(outcome)
     THEN [pc |-> IF i + 1 < retries THEN "loop" ELSE "returned", val |-> NoVal,
           log |-> Append(got, [ev |-> "sleep", t |-> SleepTime(i, jitter)]), i |-> i + 1]
     ELSE raise

\* timeframe -> (start_date, end_date), in get_token_data and get_market_data
Minus(dt, days) == <<dt[1] - days * DaySeconds, dt[2]>>
DateRange(timeframe, now) ==
  [end |-> now,
   start |-> CASE timeframe = "24h" -> Minus(now, 1)
               [] timeframe = "7d" -> Minus(now, 7)
               [] timeframe = "30d" -> Minus(now, 30)
               [] timeframe = "90d" -> Minus(now, 90)
               [] timeframe = "1y" -> Minus(now, 365)
               [] OTHER -> AllTimeStart]

\* pd.date_range(end=datetime.now(), periods=30, freq='D')
DateRangeStart(now, periods) == [k \in 1..periods |-> Minus(now, 1 - k)]
DateRangeEnd(now, periods) == [k \in 1..periods |-> Minus(now, periods - k)]

\* a mock value: base * (1 + random.uniform(-spread, spread)), kept as its range
Mock(base, spread) == [base |-> base, spread |-> spread]
Filled(v) == [k \in 1..FallbackPeriods |-> v]

\* the except branch of get_token_data
TokenFallback(token, now) ==
  [kind |-> "series", path |-> "fallback",
   date |-> DateRangeEnd(now, FallbackPeriods),
   price |-> Filled(Mock(IF token = <<"B","T","C">> THEN "100"
                         ELSE IF token = <<"E","T","H">> THEN "1" ELSE "0.1", "0.05")),
   market_cap |-> Filled(Mock(IF token = <<"B","T","C">> THEN "1e11"
                              ELSE IF token = <<"E","T","H">> THEN "5e10" ELSE "1e9", "0.05")),
   volume |-> Filled(Mock(IF token = <<"B","T","C">> THEN "5e9"
                          ELSE IF token = <<"E","T","H">> THEN "2e9" ELSE "5e8", "0.1"))]

\* the except branch of get_market_data
MarketFallback(now) ==
  [kind |-> "series", path |-> "fallback",
   date |-> DateRangeEnd(now, FallbackPeriods),
   market_cap |-> Filled(Mock("2.1e12", "0.05")),
   volume |-> Filled(Mock("1.2e11", "0.1")),
   btc_dominance |-> Filled(Mock("45", "5"))]

\* datetime.fromtimestamp(ms / 1000)
FromTimestamp(ms) == <<ms \div 1000, ms % 1000>>

\* {entry[0]: entry[1] for entry in entries}.get(ts, 0): the last entry of a
\* timestamp wins, 0 when there is none
LookupFirstOr0(entries, ts) == IF entries = <<>> THEN 0 ELSE entries[1][2]
LookupOr0(entries, ts) ==
  LET idx == {i \in DOMAIN entries : entries[i][1] = ts}
  IN IF idx = {} THEN 0
     ELSE entries[CHOOSE i \in idx : \A j \in idx : j <= i][2]

\* the rows get_token_data builds from a market_chart answer: one per price
\* point, in the order of the answer
\* [entry[0] for entry in response['prices']]
AlignOnCaps(body) == [i \in DOMAIN body.market_caps |-> body.market_caps[i][1]]
AlignOnPrices(body) == [i \in DOMAIN body.prices |-> body.prices[i][1]]
ChartSeries(body) ==
  [kind |-> "series", path |-> "api",
   date |-> [i \in DOMAIN body.prices |-> FromTimestamp(body.prices[i][1])],
   price |-> [i \in DOMAIN body.prices |-> body.prices[i][2]],
   market_cap |-> [i \in DOMAIN AlignOnPrices(body) |->
                     LookupOr0(body.market_caps, AlignOnPrices(body)[i])],
   volume |-> [i \in DOMAIN AlignOnPrices(body) |->
                 LookupOr0(body.total_volumes, AlignOnPrices(body)[i])]]

\* the static part of _get_token_id: symbol.upper() in symbol_to_id
CaseSensitiveKey(symbol) == symbol
TableKey(symbol) == Upper(symbol)
InTable(symbol) == LET k == TableKey(symbol) IN \E e \in SymbolToId : e[1] = k
TableId(symbol) == LET k == TableKey(symbol) IN (CHOOSE e \in SymbolToId : e[1] = k)[2]

\* the scan of the coin list: the first coin whose symbol matches, else None
LastMatch(coins, symbol) ==
  LET idx == {i \in DOMAIN coins : Upper(coins[i].symbol) = Upper(symbol)}
  IN IF idx = {} THEN NoneId ELSE coins[CHOOSE i \in idx : \A j \in idx : j <= i].id
FirstMatch(coins, symbol) ==
  LET idx == {i \in DOMAIN coins : Upper(coins[i].symbol) = Upper(symbol)}
  IN IF idx = {} THEN NoneId ELSE coins[CHOOSE i \in idx : \A j \in idx : i <= j].id

\* what _get_token_id returns once its coin-list request has ended with rpc
\* ("returned" or "raised") and the value rval
ListResult(symbol, rpc, rval) ==
  IF rpc = "raised" THEN NoneId                      \* except Exception
  ELSE IF rval.kind # "json" THEN NoneId             \* iterating None
  ELSE IF rval.body.kind # "list" THEN NoneId        \* not a list of coins
  ELSE FirstMatch(rval.body.coins, symbol)

\* random.uniform(0.8, 1.2), in tenths
Variations == {8, 10, 12}
MsOf(dt) == dt[1] * 1000 + dt[2]
\* (a - b).days
DaysBetween(a, b) == (MsOf(a) - MsOf(b)) \div (DaySeconds * 1000)
Min(a, b) == IF a <= b THEN a ELSE b

\* the series get_market_data builds; dominance in hundredths of a percent
MarketSeries(dates, caps, global, vs) ==
  LET n == Len(caps)
      volume(i) == IF i = n THEN global.total_volume
                   ELSE (caps[i] * global.total_volume * vs[i]) \div (caps[n] * 10)
      days_ago(i) == DaysBetween(dates[n], dates[i])
      dominance(i) == IF days_ago(i) = 0 THEN global.btc
                      ELSE Min(global.btc + Min(days_ago(i) * 1, 3000), 9000)
  IN [kind |-> "series", path |-> "api",
      date |-> dates,
      market_cap |-> caps,
      volume |-> [i \in DOMAIN caps |-> volume(i)],
      btc_dominance |-> [i \in DOMAIN caps |-> dominance(i)]]

\* if not token_id
NeverMissing(id) == FALSE
Missing(id) == id = NoneId

\* the coin-list request has ended as r: _get_token_id returns, and
\* get_token_data goes on from "if not token_id"
ListReturn(r) ==
  LET id == ListResult(api_arg.symbol, r.pc, r.val)
  IN IF api_op = "resolve"
     THEN \* the request of the call is kept for the record
          /\ api_pc' = "done"
          /\ api_ret' = [kind |-> "id", id |-> id]
          /\ api_loc' = api_loc
          /\ req_pc' = r.pc
          /\ req_val' = r.val
          /\ req_log' = r.log
          /\ req_i' = r.i
          /\ UNCHANGED <<req_url, req_retries>>
     ELSE IF Missing(id)
     THEN \* raise ValueError, caught by the except branch
          /\ api_pc' = "done"
          /\ api_ret' = TokenFallback(api_arg.symbol, api_arg.now)
          /\ api_loc' = [api_loc EXCEPT !.token_id = id]
          /\ EndRequest
     ELSE /\ api_pc' = "chart"
          /\ api_ret' = api_ret
          /\ api_loc' = [api_loc EXCEPT !.token_id = id, !.urls = Append(@, "chart")]
          /\ CallRequest("chart", DefaultRetries)

\* the market_chart request has ended: the rest of get_token_data
ChartReturn(rpc, rval) ==
  /\ api_pc' = "done"
  /\ api_loc' = api_loc
  /\ EndRequest
  /\ api_ret' =
       IF rpc = "raised" \/ rval.kind # "json" \/ rval.body.kind # "chart"
       THEN TokenFallback(api_arg.symbol, api_arg.now)
       ELSE ChartSeries(rval.body)

\* the /global/history request has ended: the loop over market_cap_by_date,
\* then the /global request
HistoryReturn(rpc, rval) ==
  IF rpc = "raised" \/ rval.kind # "json" \/ rval.body.kind # "history"
  THEN /\ api_pc' = "done"
       /\ api_ret' = MarketFallback(api_arg.now)
       /\ api_loc' = api_loc
       /\ EndRequest
  ELSE LET l == rval.body.market_cap_by_date
       IN /\ api_pc' = "global"
          /\ api_ret' = api_ret
          /\ api_loc' = [api_loc EXCEPT !.date = [i \in DOMAIN l |-> FromTimestamp(l[i][1])],
                                        !.market_cap = [i \in DOMAIN l |-> l[i][2]]]
          /\ CallRequest("global", DefaultRetries)

\* the /global request has ended: the rest of get_market_data
GlobalReturn(rpc, rval, vs) ==
  /\ api_pc' = "done"
  /\ api_loc' = api_loc
  /\ EndRequest
  /\ api_ret' =
       IF rpc = "raised" \/ rval.kind # "json" \/ rval.body.kind # "global"
       THEN MarketFallback(api_arg.now)
       ELSE IF api_loc.market_cap = <<>>                       \* [-1] of an empty list
       THEN MarketFallback(api_arg.now)
       ELSE IF api_loc.market_cap[Len(api_loc.market_cap)] = 0 \* division by zero
       THEN MarketFallback(api_arg.now)
       ELSE MarketSeries(api_loc.date, api_loc.market_cap, rval.body, vs)

\* one HTTP attempt of the running make_api_request and, when it ends the
\* call, what the caller does with the result up to its next request
Attempt(outcome, jitter, body, vs) ==
  /\ req_pc = "loop"
  /\ api_http' = IF api_pc \in {"done", "list"} THEN api_http + 1 ELSE api_http
  /\ UNCHANGED <<api_op, api_arg, dbvars, libvars>>
  /\ LET r == Iteration(req_i, req_retries, req_log, outcome, jitter, body)
     IN IF r.pc = "loop" \/ api_pc = "done"
        THEN /\ req_pc' = r.pc
             /\ req_val' = r.val
             /\ req_log' = r.log
             /\ req_i' = r.i
             /\ UNCHANGED <<req_url, req_retries, api_pc, api_loc>>
             /\ api_ret' = IF r.pc = "loop" THEN api_ret ELSE r.val
        ELSE CASE api_pc = "list" -> ListReturn(r)
               [] api_pc = "chart" -> ChartReturn(r.pc, r.val)
               [] api_pc = "history" -> HistoryReturn(r.pc, r.val)
               [] api_pc = "global" -> GlobalReturn(r.pc, r.val, vs)

\* make_api_request(url, retries=retries), called on its own
MakeApiRequest(retries) ==
  /\ Idle
  /\ UNCHANGED <<dbvars, libvars>>
  /\ api_op' = "request"
  /\ api_pc' = "done"
  /\ api_arg' = [retries |-> retries]
  /\ api_loc' = <<>>
  /\ api_ret' = IF retries > 0 THEN Running ELSE NoVal
  /\ api_http' = 0
  /\ CallRequest("any", retries)

\* _get_token_id(symbol), called on its own, up to its return or its request
GetTokenId(symbol) ==
  /\ Idle
  /\ UNCHANGED <<dbvars, libvars>>
  /\ api_op' = "resolve"
  /\ api_arg' = [symbol |-> symbol]
  /\ api_http' = 0
  /\ api_loc' = [resolved |-> 1]
  /\ IF InTable(symbol)
     THEN /\ api_pc' = "done"
          /\ api_ret' = [kind |-> "id", id |-> TableId(symbol)]
          /\ EndRequest
     ELSE /\ api_pc' = "list"
          /\ api_ret' = Running
          /\ CallRequest("list", DefaultRetries)

\* get_token_data(token, timeframe), up to its first request
GetTokenData(token, timeframe, now) ==
  /\ Idle
  /\ UNCHANGED <<dbvars, libvars>>
  /\ api_op' = "token"
  /\ api_arg' = [symbol |-> token, timeframe |-> timeframe, now |-> now]
  /\ api_http' = 0
  /\ api_ret' = Running
  /\ IF InTable(token)
     THEN /\ api_pc' = "chart"
          /\ api_loc' = [resolved |-> 1, token_id |-> TableId(token), urls |-> <<"chart">>,
                         window |-> DateRange(timeframe, now)]
          /\ CallRequest("chart", DefaultRetries)
     ELSE /\ api_pc' = "list"
          /\ api_loc' = [resolved |-> 1, token_id |-> NoneId, urls |-> <<"list">>,
                         window |-> DateRange(timeframe, now)]
          /\ CallRequest("list", DefaultRetries)

\* get_market_data(timeframe), up to its first request
GetMarketData(timeframe, now) ==
  /\ Idle
  /\ UNCHANGED <<dbvars, libvars>>
  /\ api_op' = "market"
  /\ api_arg' = [timeframe |-> timeframe, now |-> now]
  /\ api_http' = 0
  /\ api_ret' = Running
  /\ api_pc' = "history"
  /\ api_loc' = [window |-> DateRange(timeframe, now), date |-> <<>>, market_cap |-> <<>>]
  /\ CallRequest("history", DefaultRetries)

\* no database file yet, no call made yet
Init ==
  /\ db_init = FALSE
  /\ market_tbl = EmptyBag
  /\ token_tbl = EmptyBag
  /\ db_pc = "idle"
  /\ db_done = {}
  /\ db_ret = [op |-> "none", caught |-> FALSE, raised |-> FALSE]
  /\ hist = <<>>
  /\ api_op = "idle"
  /\ api_pc = "done"
  /\ api_arg = <<>>
  /\ api_loc = <<>>
  /\ api_ret = [kind |-> "none"]
  /\ api_http = 0
  /\ req_pc = "none"
  /\ req_url = "any"
  /\ req_retries = 0
  /\ req_i = 0
  /\ req_log = <<>>
  /\ req_val = NoVal
  /\ lib_op = "idle"
  /\ lib_arg = <<>>
  /\ lib_ret = <<>>

NextApi ==
  \/ \E n \in (-1)..MaxRetries : MakeApiRequest(n)
  \/ \E o \in Outcomes :
       \E j \in (IF o = "h429" THEN Jitters ELSE {0}),
          b \in (IF o = "ok" THEN Bodies(req_url) ELSE {NoVal}),
          vs \in (IF o = "ok" /\ req_url = "global" THEN [1..MaxPts -> Variations]
                  ELSE {<<>>}) : Attempt(o, j, b, vs)
  \/ \E sym \in InputSymbols : GetTokenId(sym)
  \/ \E sym \in InputSymbols, tf \in Timeframes, now \in Nows : GetTokenData(sym, tf, now)
  \/ \E tf \in Timeframes, now \in Nows : GetMarketData(tf, now)


(***************************************************************************)
(* ------------------------ COMPUTING FUNCTIONS -------------------------- *)
(***************************************************************************)
\* a call of a computing function by a caller that has made none yet: it
\* reads its arguments and returns
Call(op, arg, ret) ==
  /\ lib_op = "idle"
  /\ lib_op' = op
  /\ lib_arg' = arg
  /\ lib_ret' = ret
  /\ UNCHANGED <<dbvars, apivars>>

\* utils.calculate_date_range: the days of the if/elif chain (0: the else branch)
WindowDaysLeap(timeframe) ==
  CASE timeframe = "24h" -> 1 [] timeframe = "7d" -> 7 [] timeframe = "30d" -> 30
    [] timeframe = "90d" -> 90 [] timeframe = "1y" -> 366 [] OTHER -> 0
WindowDays(timeframe) ==
  CASE timeframe = "24h" -> 1 [] timeframe = "7d" -> 7 [] timeframe = "30d" -> 30
    [] timeframe = "90d" -> 90 [] timeframe = "1y" -> 365 [] OTHER -> 0
RangeStart(timeframe, end_date) ==
  IF WindowDays(timeframe) = 0 THEN AllTimeStart
  ELSE Minus(end_date, WindowDays(timeframe))
\* the timeframes a caller may pass: those of the configuration and others
RangeTimeframes == Timeframes \cup {"2w", "24H", ""}
RangeNows == Nows \cup {<<423489600, 0>>, <<86400, 7>>}
CalculateDateRange(timeframe, now) ==
  Call("range", [timeframe |-> timeframe, now |-> now],
       [start |-> RangeStart(timeframe, now), end |-> now])

(***************************************************************************)
(* data_processor.process_historical_data. A column is a sequence; a cell  *)
(* of a float column is [k, n, d]: k = "num" for the number n/d, "nan",    *)
(* "inf" or "ninf". The magnitude of a rolling standard deviation is not   *)
(* computed: the cell names the row its window ends at (n) and d is 0. A   *)
(* date is an in-memory timestamp <<second, microsecond>>.                 *)
(***************************************************************************)
\* the longest series handed to the normaliser
MaxRows == 31

Num(n, d) == [k |-> "num", n |-> n, d |-> d]
NaN == [k |-> "nan", n |-> 0, d |-> 1]
PosInf == [k |-> "inf", n |-> 1, d |-> 0]
NegInf == [k |-> "ninf", n |-> -1, d |-> 0]
\* pandas isna / notna: an infinity is not null
IsNull(c) == c.k = "nan"

\* float division a / b of two numbers: no exception on a zero divisor
FloatDiv(a, b) ==
  IF b # 0 THEN Num(a, b)
  ELSE IF a = 0 THEN NaN ELSE IF a > 0 THEN PosInf ELSE NegInf

\* df.sort_values('date'): the position by date of row i of the input (rows
\* of one date keep their order), and the input row that comes r-th
Rank(dates, i) ==
  Cardinality({j \in DOMAIN dates : dates[j] < dates[i]})
    + Cardinality({j \in 1..i : dates[j] = dates[i]})
RowAt(ranks) == [r \in DOMAIN ranks |-> CHOOSE i \in DOMAIN ranks : ranks[i] = r]
\* a timestamp <<second, microsecond>> in microseconds: timestamps are
\* ordered as these are (s \o <<>> is the sequence s, written out once)
Timestamp(dt) == dt[1] * 1000000 + dt[2]
Timestamps(dates) == [i \in DOMAIN dates |-> Timestamp(dates[i])] \o <<>>
RanksOf(ts) == [i \in DOMAIN ts |-> Rank(ts, i)] \o <<>>
SortOrder(dates) == RowAt(RanksOf(Timestamps(dates))) \o <<>>
SortValues(order, col) == [r \in DOMAIN col |-> col[order[r]]] \o <<>>

\* Series.pct_change() * 100: col[i] / col[i-1] - 1, the first row undefined
PctChange(col) ==
  [i \in DOMAIN col |->
     IF i = 1 THEN NaN ELSE FloatDiv((col[i] - col[i - 1]) * 100, col[i - 1])]

RECURSIVE SumTo(_, _, _)
SumTo(col, a, b) == IF a > b THEN 0 ELSE col[b] + SumTo(col, a, b - 1)
\* Series.rolling(window=w).mean() over a column of numbers
RollingMeanPartial(col, w) ==
  [i \in DOMAIN col |-> Num(SumTo(col, IF i < w THEN 1 ELSE i - w + 1, i), IF i < w THEN i ELSE w)]
RollingMean(col, w) ==
  [i \in DOMAIN col |-> IF i < w THEN NaN ELSE Num(SumTo(col, i - w + 1, i), w)]
\* Series.rolling(window=w).std() over a float column: undefined until the
\* window holds w numbers
RollingStd(cells, w) ==
  [i \in DOMAIN cells |->
     IF i < w \/ \E j \in (i - w + 1)..i : cells[j].k # "num" THEN NaN
     ELSE Num(i, 0)]

\* fillna(method='bfill') on one column: a null cell takes the next
\* non-null value below it, and stays null when there is none
NoFill(cells) == cells
Bfill(cells) ==
  [i \in DOMAIN cells |->
     IF ~IsNull(cells[i]) THEN cells[i]
     ELSE LET below == {j \in DOMAIN cells : j > i /\ ~IsNull(cells[j])}
          IN IF below = {} THEN cells[i]
             ELSE cells[CHOOSE j \in below : \A m \in below : j <= m]]

VolatilityWindow == 10
ShortWindow == 7
LongWindow == 30

\* the columns process_historical_data adds to the sorted frame df, and the
\* final fillna over every column
VolumeToMcap(volume, market_cap) ==
  [i \in DOMAIN volume |-> FloatDiv(volume[i], market_cap[i])]
PriceColumns(df, ret) ==
  [daily_return |-> Bfill(ret),
   volatility |-> Bfill(RollingStd(ret, VolatilityWindow)),
   price_7d_ma |-> Bfill(RollingMean(df.price, ShortWindow)),
   price_30d_ma |-> Bfill(RollingMean(df.price, LongWindow))]
DerivedColumns(df) ==
  (IF "price" \in DOMAIN df THEN PriceColumns(df, PctChange(df.price)) ELSE <<>>)
  @@ [market_cap_change |-> Bfill(PctChange(df.market_cap)),
      volume_to_mcap |-> Bfill(VolumeToMcap(df.volume, df.market_cap)),
      market_cap_7d_ma |-> Bfill(RollingMean(df.market_cap, ShortWindow)),
      market_cap_30d_ma |-> Bfill(RollingMean(df.market_cap, LongWindow)),
      volume_7d_ma |-> Bfill(RollingMean(df.volume, ShortWindow)),
      volume_30d_ma |-> Bfill(RollingMean(df.volume, LongWindow))]
SortedFrame(data, order) == [c \in DOMAIN data |-> SortValues(order, data[c])]
WithDerived(df) == df @@ DerivedColumns(df)

\* the value process_historical_data returns for data_dict
ProcessHistoricalData(data) == WithDerived(SortedFrame(data, SortOrder(data.date)))

\* the series handed to the normaliser: n rows a day apart, in ascending or
\* descending date order; by date the price rises by step from p0; the market
\* cap is 0 at the rows of zm and the volume is 0 at the rows of zv
FirstPrices == {0, 1}
PriceSteps == {2}
ZeroRows(n) == SUBSET ({n - 1, n} \cap 1..n)
ZeroLast(n) == SUBSET {n}
TokenSeries(n, p0, step, zm, zv, rev) ==
  LET day(i) == IF rev THEN n + 1 - i ELSE i
  IN [date |-> [i \in 1..n |-> <<day(i), 0>>],
      price |-> [i \in 1..n |-> p0 + step * (day(i) - 1)],
      market_cap |-> [i \in 1..n |-> IF day(i) \in zm THEN 0 ELSE 7 + day(i)],
      volume |-> [i \in 1..n |-> IF day(i) \in zv THEN 0 ELSE 3]]

ProcessCall(data) == Call("process", data, ProcessHistoricalData(data))

(***************************************************************************)
(* ml_predictor.predict_prices. The forecasting libraries are outside the  *)
(* repository: a library run either fails or hands back numbers, drawn     *)
(* here from small sets. Amounts are counted in hundredths and dates in    *)
(* days.                                                                   *)
(***************************************************************************)
\* the longest horizon asked
MaxHorizon == 3

ModelTypes == {"ARIMA", "LSTM", "Prophet", "GARCH"}
\* historical_data: date and price columns, in any row order
Histories ==
  {[date |-> <<1, 2, 3>>, price |-> <<4, 6, 5>>],
   [date |-> <<9, 7, 8>>, price |-> <<2, 2, 3>>],
   [date |-> <<5>>, price |-> <<1>>]}
\* what a library run hands back: ok = FALSE when it raised; yhat the h
\* point forecasts (for the LSTM, the network's outputs in tenths of the
\* normalised scale); width the distance of the lower band below the
\* forecast (ARIMA: the forecast standard deviation)
Yhats == {-2, 3}
Widths == {0, 2}
LibraryRuns(h) ==
  {[ok |-> FALSE, yhat |-> <<>>, width |-> 0]}
    \cup {[ok |-> TRUE, yhat |-> y, width |-> w] : y \in [1..h -> Yhats], w \in Widths}

Raised(of) == [kind |-> "exception", of |-> of]
MaxOf(S) == CHOOSE x \in S : \A y \in S : y <= x
MinOf(S) == CHOOSE x \in S : \A y \in S : x <= y
Range(f) == {f[i] : i \in DOMAIN f}

\* df.sort_values('date'); df['date'].iloc[-1]
LastDate(data) == MaxOf(Range(data.date))
\* [last_date + timedelta(days=i+1) for i in range(prediction_days)]
ForecastDatesFromLast(last_date, prediction_days) ==
  [i \in 1..prediction_days |-> last_date + i - 1]
ForecastDates(last_date, prediction_days) ==
  [i \in 1..prediction_days |-> last_date + i]

\* np.maximum(lower_bound, 0)
ClipAtZero(x) == IF x < 0 THEN 0 ELSE x

PredictWithArima(data, prediction_days, run) ==
  IF ~run.ok THEN Raised("library")
  ELSE [kind |-> "forecast",
        date |-> ForecastDates(LastDate(data), prediction_days),
        predicted_price |-> [i \in 1..prediction_days |-> 100 * run.yhat[i]],
        upper_bound |-> [i \in 1..prediction_days |-> 100 * run.yhat[i] + 196 * run.width],
        lower_bound |-> [i \in 1..prediction_days |->
                           ClipAtZero(100 * run.yhat[i] - 196 * run.width)]]

\* (p * (max_price - min_price)) + min_price for a network output of
\* p tenths, in hundredths
Denormalize(p, data) ==
  10 * p * (MaxOf(Range(data.price)) - MinOf(Range(data.price)))
    + 100 * MinOf(Range(data.price))
PredictWithLstm(data, prediction_days, run) ==
  IF ~run.ok THEN Raised("library")
  ELSE LET predicted == [i \in 1..prediction_days |-> Denormalize(run.yhat[i], data)]
       IN [kind |-> "forecast",
           date |-> ForecastDates(LastDate(data), prediction_days),
           predicted_price |-> predicted,
           \* p * (1 + uncertainty), p * (1 - uncertainty), uncertainty = 0.1
           upper_bound |-> [i \in 1..prediction_days |-> (predicted[i] * 11) \div 10],
           lower_bound |-> [i \in 1..prediction_days |-> (predicted[i] * 9) \div 10]]

\* Prophet.make_future_dataframe(periods): the dates of the history in
\* order, each once, then one date a day for periods days
RECURSIVE Ascending(_)
Ascending(S) == IF S = {} THEN <<>> ELSE <<MinOf(S)>> \o Ascending(S \ {MinOf(S)})
MakeFutureDataframe(data, periods) ==
  Ascending(Range(data.date)) \o ForecastDates(MaxOf(Range(data.date)), periods)
\* forecast.iloc[-prediction_days:].reset_index(drop=True)
LastRows(col, k) == [i \in 1..k |-> col[Len(col) - k + i]]
PredictWithProphet(data, prediction_days, run) ==
  IF ~run.ok THEN Raised("library")
  ELSE LET future == MakeFutureDataframe(data, prediction_days)
           \* model.predict(future): one row per date; the rows of the
           \* history dates are fitted values
           yhat == [i \in DOMAIN future |->
                      IF i <= Len(future) - prediction_days THEN 100
                      ELSE 100 * run.yhat[i - (Len(future) - prediction_days)]]
       IN [kind |-> "forecast",
           date |-> LastRows(future, prediction_days),
           predicted_price |-> LastRows(yhat, prediction_days),
           upper_bound |-> LastRows([i \in DOMAIN yhat |-> yhat[i] + 100 * run.width],
                                    prediction_days),
           lower_bound |-> LastRows([i \in DOMAIN yhat |-> yhat[i] - 100 * run.width],
                                    prediction_days)]

\* predict_prices(historical_data, model_type, prediction_days)
PredictPrices(data, model_type, prediction_days, run) ==
  Call("predict",
       [data |-> data, model_type |-> model_type,
        prediction_days |-> prediction_days, run |-> run],
       CASE model_type = "ARIMA" -> PredictWithArima(data, prediction_days, run)
         [] model_type = "LSTM" -> PredictWithLstm(data, prediction_days, run)
         [] model_type = "Prophet" -> PredictWithProphet(data, prediction_days, run)
         [] OTHER -> Raised("ValueError"))

(***************************************************************************)
(* ai_analyzer.extract_rating. A text is a sequence of characters; a       *)
(* number read by float() is [i, f]: the integer part and the digits after *)
(* the point, trailing zeros dropped.                                      *)
(***************************************************************************)
\* the most pieces a generated text is made of
MaxPieces == 3

Digits == {"0", "1", "2", "3", "4", "5", "6", "7", "8", "9"}
Whitespace == {" "}
DigitVal(c) ==
  CASE c = "0" -> 0 [] c = "1" -> 1 [] c = "2" -> 2 [] c = "3" -> 3 [] c = "4" -> 4
    [] c = "5" -> 5 [] c = "6" -> 6 [] c = "7" -> 7 [] c = "8" -> 8 [] OTHER -> 9

\* str.lower()
LowerChar(c) == IF \E i \in 1..26 : UpperAlpha[i] = c
                THEN LowerAlpha[CHOOSE i \in 1..26 : UpperAlpha[i] = c] ELSE c
Lower(text) == [i \in DOMAIN text |-> LowerChar(text[i])]

\* the end of the longest run of characters of S that begins at i (i - 1
\* when text[i] is not in S)
RECURSIVE RunEnd(_, _, _)
RunEnd(text, i, S) ==
  IF i \in DOMAIN text /\ text[i] \in S THEN RunEnd(text, i + 1, S) ELSE i - 1
\* text has the characters of word from position i on
HasAt(text, i, word) ==
  /\ i >= 1 /\ i + Len(word) - 1 <= Len(text)
  /\ \A k \in DOMAIN word : text[i + k - 1] = word[k]

\* float() of a text matched by \d+(\.\d+)?
RECURSIVE IntOf(_)
IntOf(ds) == IF ds = <<>> THEN 0 ELSE 10 * IntOf(SubSeq(ds, 1, Len(ds) - 1)) + DigitVal(ds[Len(ds)])
RECURSIVE StripZeros(_)
StripZeros(ds) ==
  IF ds # <<>> /\ ds[Len(ds)] = "0" THEN StripZeros(SubSeq(ds, 1, Len(ds) - 1)) ELSE ds
Float(num) ==
  LET e1 == RunEnd(num, 1, Digits)
  IN [i |-> IntOf(SubSeq(num, 1, e1)), f |-> StripZeros(SubSeq(num, e1 + 2, Len(num)))]
Five == [i |-> 5, f |-> <<>>]
\* 0 <= rating <= 10, for a number without sign
InZeroTen(x) == x.i < 10 \/ (x.i = 10 /\ x.f = <<>>)

\* the ends e such that text[s..e] matches (\d+(\.\d+)?)
NumberEnds(text, s) ==
  {e \in s..Len(text) :
     \E e1 \in s..e :
        /\ \A k \in s..e1 : text[k] \in Digits
        /\ \/ e = e1
           \/ /\ e >= e1 + 2 /\ text[e1 + 1] = "."
              /\ \A k \in (e1 + 2)..e : text[k] \in Digits}
\* \s*(/|out of)\s*10 matches from position e + 1 on
RatingTail(text, e) ==
  LET j == RunEnd(text, e + 1, Whitespace) + 1
      k == IF HasAt(text, j, <<"/">>) THEN j + 1
           ELSE IF HasAt(text, j, <<"o", "u", "t", " ", "o", "f">>) THEN j + 6 ELSE 0
  IN k # 0 /\ HasAt(text, RunEnd(text, k, Whitespace) + 1, <<"1", "0">>)
\* re.search: the match at the leftmost position that has one
LastOf(starts) == MaxOf(starts)
FirstOf(starts) == MinOf(starts)
\* re.search(r'(\d+(\.\d+)?)\s*(/|out of)\s*10', text): group 1, <<>> when
\* there is no match. The tail begins with a character that is neither a
\* digit nor a point, so at most one end of the number lets it match.
OutOfTen(text) ==
  LET ends(s) == {e \in NumberEnds(text, s) : RatingTail(text, e)}
      starts == {s \in DOMAIN text : ends(s) # {}}
  IN IF starts = {} THEN <<>>
     ELSE SubSeq(text, FirstOf(starts), MaxOf(ends(FirstOf(starts))))
\* re.search(r'rating\D*(\d+(\.\d+)?)', text): group 1, <<>> when there is
\* no match; every quantifier takes the longest run
AfterRating(text) ==
  LET word == <<"r", "a", "t", "i", "n", "g">>
      digitAt(s) == RunEnd(text, s + 6, {text[k] : k \in DOMAIN text} \ Digits) + 1
      starts == {s \in DOMAIN text : HasAt(text, s, word) /\ digitAt(s) <= Len(text)}
  IN IF starts = {} THEN <<>>
     ELSE LET d == digitAt(FirstOf(starts))
              e1 == RunEnd(text, d, Digits)
              e2 == IF HasAt(text, e1 + 1, <<".">>) THEN RunEnd(text, e1 + 2, Digits) ELSE e1
          IN SubSeq(text, d, IF e2 >= e1 + 2 THEN e2 ELSE e1)

\* the value extract_rating returns for analysis_text
ExtractRatingOf(analysis_text) ==
  IF OutOfTen(analysis_text) # <<>> THEN Float(OutOfTen(analysis_text))
  ELSE IF AfterRating(Lower(analysis_text)) # <<>>
          /\ InZeroTen(Float(AfterRating(Lower(analysis_text))))
       THEN Float(AfterRating(Lower(analysis_text)))
       ELSE Five
ExtractRating(analysis_text) ==
  Call("rating", [analysis_text |-> analysis_text], [rating |-> ExtractRatingOf(analysis_text)])

\* generated texts: up to MaxPieces of these pieces, one after another
Pieces ==
  {<<"7", ".", "5">>, <<"/", "1", "0">>, <<" ", "o", "u", "t", " ", "o", "f", " ", "1", "0">>, <<"r", "a", "t", "i", "n", "g", ":", " ">>, <<"R", "a", "t", "i", "n", "g", " ">>, <<"1", "2">>, <<"o", "k", " ">>, <<".">>, <<"0">>}
RECURSIVE Concat(_)
Concat(ps) == IF ps = <<>> THEN <<>> ELSE ps[1] \o Concat(Tail(ps))
Texts == {Concat(ps) : ps \in SeqsUpTo(Pieces, MaxPieces)}

(***************************************************************************)
(* ai_analyzer.analyze_whitepaper. The download and the text generation    *)
(* are outside the repository: each either fails or hands back a text.     *)
(***************************************************************************)
Failed == [ok |-> FALSE, text |-> <<>>]
Generated(text) == [ok |-> TRUE, text |-> text]
\* what a url is: none given, a PDF, another document
Urls == {"", "https://x/paper.pdf", "https://x/paper"}
\* what the download gives
Downloads == {Failed, Generated(<<>>), Generated(<<"d", "o", "c">>)}
\* what one text-generation call gives
LlmTexts == {<<"7", ".", "5", "/", "1", "0">>, <<"r", "a", "t", "e", "d", " ", "1", "2", "/", "1", "0">>}
LlmRuns == {Failed} \cup {Generated(t) : t \in LlmTexts}
\* the four random.uniform draws of generate_mock_analysis, rounded to one
\* decimal: the ends of the four intervals
MockDraws ==
  {[security |-> [i |-> 5, f |-> <<>>], growth |-> [i |-> 5, f |-> <<>>],
    risk |-> [i |-> 4, f |-> <<>>], tech |-> [i |-> 5, f |-> <<"5">>]],
   [security |-> [i |-> 8, f |-> <<"5">>], growth |-> [i |-> 9, f |-> <<>>],
    risk |-> [i |-> 7, f |-> <<"5">>], tech |-> [i |-> 8, f |-> <<"5">>]]}

\* a text of the result: generated by the model, or filled into a template
ByLlm(text) == [src |-> "llm", body |-> text]
ByTemplate(project_name, part) == [src |-> "template", body |-> <<project_name, part>>]

\* generate_mock_analysis(project_name), with the draws made
GenerateMockAnalysis(project_name, draw) ==
  [security |-> ByTemplate(project_name, "security"),
   growth |-> ByTemplate(project_name, "growth"),
   risk |-> ByTemplate(project_name, "risk"),
   technology |-> ByTemplate(project_name, "technology"),
   summary |-> ByTemplate(project_name, "summary"),
   security_rating |-> draw.security,
   growth_rating |-> draw.growth,
   risk_rating |-> draw.risk,
   tech_rating |-> draw.tech]

\* the text handed to the prompts: the document, or a sentence about the
\* project when no text was extracted
WhitepaperText(project_name, url, download) ==
  IF url # "" /\ download.ok /\ download.text # <<>> THEN download.text
  ELSE <<"p">> \o project_name

\* the dictionary built at lines 140-150 from the five generated texts
LlmAnalysis(runs) ==
  [security |-> ByLlm(runs[1].text),
   growth |-> ByLlm(runs[2].text),
   risk |-> ByLlm(runs[3].text),
   technology |-> ByLlm(runs[4].text),
   summary |-> ByLlm(runs[5].text),
   security_rating |-> ExtractRatingOf(runs[1].text),
   growth_rating |-> ExtractRatingOf(runs[2].text),
   risk_rating |-> ExtractRatingOf(runs[3].text),
   tech_rating |-> ExtractRatingOf(runs[4].text)]

\* except Exception: print(...), then the return of line 156; done is what
\* the try block had computed when the exception came
KeepDone(done, mock) == done @@ mock
AfterExcept(done, mock) == mock
\* the texts generated before the first failing call, as dictionary entries
DoneBefore(runs) ==
  LET all == LlmAnalysis(runs)
      names == <<"security", "growth", "risk", "technology", "summary">>
      good == {k \in 1..5 : \A j \in 1..k : runs[j].ok}
  IN [n \in {names[k] : k \in good} |-> all[n]]

\* analyze_whitepaper(project_name, url); key: OPENAI_API_KEY is set
AnalyzeWhitepaperOf(project_name, key, runs, draw) ==
  IF key /\ \A k \in 1..5 : runs[k].ok THEN LlmAnalysis(runs)
  ELSE IF key THEN AfterExcept(DoneBefore(runs), GenerateMockAnalysis(project_name, draw))
  ELSE GenerateMockAnalysis(project_name, draw)
AnalyzeWhitepaper(project_name, url, download, key, runs, draw) ==
  Call("analyze",
       [project_name |-> project_name, url |-> url, download |-> download, key |-> key,
        text |-> WhitepaperText(project_name, url, download), runs |-> runs],
       AnalyzeWhitepaperOf(project_name, key, runs, draw))
ProjectNames == {<<"S", "o", "l">>}

(***************************************************************************)
(* The dashboard's "Get data" step (app.py): the fetched series are        *)
(* normalised and the normalised tables are handed to save_data.           *)
(***************************************************************************)
MarketColumns == {"date", "market_cap", "volume", "btc_dominance"}
TokenColumns == {"date", "price", "market_cap", "volume"}
\* pd.DataFrame(data_dict): the columns of a series given as points
ColumnsOf(points, names) == [c \in names |-> [i \in DOMAIN points |-> points[i][c]]]
\* the rows of a table, restricted to the columns names
RowsOf(table, names) == [i \in DOMAIN table.date |-> [c \in names |-> table[c][i]]]
\* what to_sql meets: a table with just the columns of market_data, or more
ShapeOf(table) == IF DOMAIN table \subseteq MarketColumns THEN "base" ELSE "derived"

\* the series the dashboard has fetched: a market series and BTC's series
FetchedMarkets == SeqsUpTo(MarketPoints, MaxLen)
FetchedTokens == SeqsUpTo({pt \in TokenPoints : pt.price = 1}, MaxLen)

\* processed_market_data, processed_token_data (app.py lines 98-99)
ProcessFetched(market, btc) ==
  Call("pipeline", [market |-> market, tokens |-> [t \in {"BTC"} |-> btc]],
       [market |-> ProcessHistoricalData(ColumnsOf(market, MarketColumns)),
        tokens |-> [t \in {"BTC"} |-> ProcessHistoricalData(ColumnsOf(btc, TokenColumns))]])
\* save_data(processed_market_data, processed_token_data) (line 102), up to
\* the end of the market_data write
SaveProcessed(up) ==
  /\ lib_op = "pipeline" /\ db_ret.op = "none"
  /\ SaveBegin(up, RowsOf(lib_ret.market, MarketColumns), ShapeOf(lib_ret.market))
\* get_historical_data() after the save
LoadSaved(up) ==
  /\ lib_op = "pipeline" /\ db_ret.op = "save"
  /\ GetHistoricalData(up, <<>>, <<>>)

\* the token loop of save_data is left out of this specification: the
\* market_data write of a normalised table never succeeds
NextPipeline ==
  \/ /\ lib_op = "idle"
     /\ \E m \in FetchedMarkets, b \in FetchedTokens : ProcessFetched(m, b)
  \/ \E up \in BOOLEAN : SaveProcessed(up)
  \/ \E up \in BOOLEAN : LoadSaved(up)

(***************************************************************************)
(* The part of get_token_data that follows the answer of the provider,     *)
(* with market-cap values that tell the points of an answer apart.         *)
(***************************************************************************)
ChartResponses ==
  {[kind |-> "chart", prices |-> p, market_caps |-> c, total_volumes |-> v] :
      p \in SeqsUpTo(ChartTs \X {100}, MaxPts),
      c \in SeqsUpTo(ChartTs \X {7, 8}, MaxPts),
      v \in SeqsUpTo(ChartTs \X {3}, MaxPts)}
  \cup {[kind |-> "chart_no_caps", prices |-> p] : p \in SeqsUpTo(ChartTs \X {100}, MaxPts)}

\* get_token_data from "response = make_api_request(...)" on, the request
\* having returned response
BuildTokenData(token, now, response) ==
  Call("get_token_data", [token |-> token, now |-> now, response |-> response],
       IF response.kind # "chart"                     \* KeyError: the except branch
       THEN TokenFallback(token, now)
       ELSE ChartSeries(response))

(***************************************************************************)
(* calculate_stats (data_processor.py). A percentage change is kept as the *)
(* two values it is computed from: ((last / ref) - 1) * 100.               *)
(***************************************************************************)
\* the columns calculate_stats looks for
StatColumns == {"price", "market_cap", "volume", "volatility"}
\* '7-Day Change (%)', '30-Day Change (%)'
WeekPoints == 7
MonthPoints == 30
\* a frame of n rows with the columns cols; the value of a row is its position
StatFrame(cols, n) == [c \in cols |-> [i \in 1..n |-> i]]
\* the position (from 1) of series.iloc[-k]
IlocBack(series, k) == Len(series) - k + 1
\* series.iloc[-1] / series.iloc[-min(points, len(df))]
TrailingChange(series, points) ==
  [last |-> series[IlocBack(series, 1)],
   ref |-> series[IlocBack(series, Min(points, Len(series)))]]
\* the table of one column
StatsOf(df, c) ==
  IF c = "volatility"
  THEN [current |-> df[c][IlocBack(df[c], 1)]]
  ELSE [change7 |-> TrailingChange(df[c], WeekPoints),
        change30 |-> TrailingChange(df[c], MonthPoints)]
\* calculate_stats(df): iloc[-1] of an empty column raises IndexError
CalculateStats(df, n) ==
  Call("calculate_stats", [df |-> df, len |-> n],
       IF n = 0 /\ DOMAIN df \cap StatColumns # {}
       THEN Raised("IndexError")
       ELSE [kind |-> "stats", tables |-> [c \in DOMAIN df \cap StatColumns |-> StatsOf(df, c)]])

(***************************************************************************)
(* get_historical_data over the contents a store can have: the primary     *)
(* keys leave at most one row per date and per (token, date).              *)
(***************************************************************************)
StoredDates == 0..2
StoredMarketRows ==
  {[date |-> d, market_cap |-> 7, volume |-> 3, btc_dominance |-> 45] : d \in StoredDates}
StoredTokenRows ==
  {[token |-> t, date |-> d, price |-> 1 + d, market_cap |-> 7, volume |-> 3] :
      t \in Tokens, d \in StoredDates}
\* start_date, end_date: not given, or a text of the stored format
FilterDates == {<<>>} \cup {<<d>> : d \in StoredDates}

\* get_historical_data(start_date, end_date) on a store holding the rows
\* market and token
QueryStore(market, token, start, end) ==
  Call("get_historical_data",
       [market_tbl |-> SetToBag(market), token_tbl |-> SetToBag(token),
        start |-> start, end |-> end],
       Loaded(SetToBag(market), SetToBag(token), start, end))

(***************************************************************************)
(* news_analyzer.get_trending_topics. The providers are outside the        *)
(* repository: a request fails or gives an answer, drawn from small sets.  *)
(* An article is kept by what the code asks of it: it names a token        *)
(* ("btc"), names none ("plain"), or has a null title ("untitled").        *)
(***************************************************************************)
\* the most articles in an answer
MaxArticles == 2
Articles == {"btc", "plain", "untitled"}
\* sorted_topics[:7]
TopTopics == 7
\* groups: the topics process_articles makes of the articles
ArticleLists ==
  {[articles |-> a, groups |-> g] : a \in SeqsUpTo(Articles, MaxArticles), g \in 1..MaxArticles}
\* the request or response.json() raises; or the JSON answer
NewsAnswers ==
  {[kind |-> "failed"]}
  \cup {[kind |-> "json", status |-> st, articles |-> l.articles, groups |-> l.groups] :
          st \in {"ok", "error"}, l \in {x \in ArticleLists : x.groups <= Len(x.articles) \/ x.groups = 1}}
PanicAnswers ==
  {[kind |-> "failed"]}
  \cup {[kind |-> "json", results |-> l.articles, groups |-> l.groups] :
          l \in {x \in ArticleLists : x.groups <= Len(x.articles) \/ x.groups = 1}}

\* process_articles and extract_tokens_from_articles inside the try block of
\* a provider function: None when either raises (a null title has no
\* .lower(); sort_values('mentions') of a frame without rows is a KeyError)
TrendingOf(provider, articles, groups) ==
  IF \E i \in DOMAIN articles : articles[i] = "untitled" THEN NoVal
  ELSE IF \A i \in DOMAIN articles : articles[i] # "btc" THEN NoVal
  ELSE [kind |-> "dict", of |-> provider,
        value |-> [topics |-> Min(groups, TopTopics), trending_tokens |-> 1,
                   sentiment_breakdown |-> 1]]

\* get_trending_from_news_api()
TrendingFromNewsApi(answer) ==
  IF answer.kind = "failed" THEN NoVal                        \* except Exception
  ELSE IF answer.status = "ok" /\ answer.articles # <<>>
  THEN TrendingOf("news", answer.articles, answer.groups)
  ELSE NoVal
\* get_trending_from_crypto_panic()
TrendingFromCryptoPanic(answer) ==
  IF answer.kind = "failed" THEN NoVal
  ELSE IF answer.results # <<>>
  THEN TrendingOf("panic", answer.results, answer.groups)
  ELSE NoVal
\* generate_mock_trending_data(): 7 topics, 10 tokens, 5 breakdowns
MockTrending ==
  [kind |-> "dict", of |-> "mock",
   value |-> [topics |-> 7, trending_tokens |-> 10, sentiment_breakdown |-> 5]]

\* if not trending_data
AnyData(data) == TRUE
NoData(data) == data = NoVal

\* get_trending_topics(); asked: the providers consulted, in order, with
\* what each gave
GetTrendingTopics(news_key, panic_key, news, panic) ==
  LET first == IF news_key THEN TrendingFromNewsApi(news) ELSE NoVal
      asks_panic == NoData(first) /\ panic_key
      second == IF asks_panic THEN TrendingFromCryptoPanic(panic) ELSE first
      third == IF NoData(second) THEN MockTrending ELSE second
  IN Call("trending",
          [news_key |-> news_key, panic_key |-> panic_key, news |-> news, panic |-> panic],
          [ret |-> third,
           asked |-> (IF news_key THEN <<[provider |-> "news", gave |-> first]>> ELSE <<>>)
                     \o (IF asks_panic THEN <<[provider |-> "panic", gave |-> second]>>
                         ELSE <<>>)])

NextLib ==
  \/ /\ lib_op = "idle"
     /\ \E tf \in RangeTimeframes, now \in RangeNows : CalculateDateRange(tf, now)
  \/ /\ lib_op = "idle"
     /\ \E n \in 1..MaxRows, p0 \in FirstPrices, step \in PriceSteps, rev \in BOOLEAN :
          \E zm \in ZeroRows(n), zv \in ZeroLast(n) :
             ProcessCall(TokenSeries(n, p0, step, zm, zv, rev))
  \/ /\ lib_op = "idle"
     /\ \E data \in Histories, m \in ModelTypes, h \in 1..MaxHorizon :
          \E run \in LibraryRuns(h) : PredictPrices(data, m, h, run)
  \/ /\ lib_op = "idle"
     /\ \E text \in Texts : ExtractRating(text)
  \/ /\ lib_op = "idle"
     /\ \E name \in ProjectNames, url \in Urls, key \in BOOLEAN, draw \in MockDraws :
          \E download \in (IF url = "" THEN {Failed} ELSE Downloads),
             runs \in (IF key THEN [1..5 -> LlmRuns] ELSE {[k \in 1..5 |-> Failed]}) :
             AnalyzeWhitepaper(name, url, download, key, runs, draw)

(***************************************************************************)
(* The dashboard script (app.py lines 79-106): every rerun of the script   *)
(* takes the series from the cache and hands them to save_data again; when *)
(* the cache has expired the series are fetched anew. The store is the     *)
(* SQLite file of the working directory: the connection is up.             *)
(***************************************************************************)
\* the most runs of the script on one set of cached series
MaxRuns == 3

RerunMarkets ==
  {<<>>, <<[date |-> <<0, 0>>, market_cap |-> 7, volume |-> 3, btc_dominance |-> 45]>>}
RerunPoint(d, p) == [date |-> d, price |-> p, market_cap |-> 7, volume |-> 3]
\* no point, one point, two points, two points within one second
RerunTokens ==
  {<<>>, <<RerunPoint(<<0, 0>>, 1)>>,
   <<RerunPoint(<<0, 0>>, 1), RerunPoint(<<1, 0>>, 1)>>,
   <<RerunPoint(<<0, 0>>, 1), RerunPoint(<<0, 5>>, 2)>>}
\* market_data with the table's columns or with the normaliser's, and
\* token_data in the order of the selected tokens
CachedSeries ==
  [market : RerunMarkets, shape : {"base", "derived"},
   tokens : {<<[token |-> "BTC", series |-> b], [token |-> "ETH", series |-> e]>> :
               b \in RerunTokens, e \in RerunTokens}]

\* no store operation has been called by the running script
NoStoreCall == [op |-> "none", caught |-> FALSE, raised |-> FALSE]
\* the running script has called save_data and the call has ended
SaveEnded == db_pc = "idle" /\ db_ret.op = "save"

\* a run of the script that finds no cached series (the first one, and the
\* one after the cache has expired), up to its call of save_data
FetchSeries(data) ==
  /\ \/ lib_op = "idle"
     \/ lib_op = "app" /\ ~lib_arg.refetched /\ SaveEnded
  /\ lib_op' = "app"
  /\ lib_arg' = [market |-> data.market, shape |-> data.shape, tokens |-> data.tokens,
                 refetched |-> (lib_op = "app")]
  /\ lib_ret' = [runs |-> 1, first |-> [market |-> EmptyBag, token |-> EmptyBag]]
  /\ db_ret' = NoStoreCall
  /\ UNCHANGED <<db_init, market_tbl, token_tbl, db_pc, db_done, hist, apivars>>

\* a rerun of the script on the cached series, up to its call of save_data
\* (first: the tables as the first call on these series left them)
ScriptRerun ==
  /\ lib_op = "app" /\ SaveEnded
  /\ lib_ret.runs < MaxRuns
  /\ lib_ret' = [runs |-> lib_ret.runs + 1,
                 first |-> IF lib_ret.runs = 1
                           THEN [market |-> market_tbl, token |-> token_tbl]
                           ELSE lib_ret.first]
  /\ db_ret' = NoStoreCall
  /\ UNCHANGED <<lib_op, lib_arg>>
  /\ UNCHANGED <<db_init, market_tbl, token_tbl, db_pc, db_done, hist, apivars>>

\* save_data(processed_market_data, processed_token_data) (line 102)
RerunSave ==
  /\ lib_op = "app" /\ db_pc = "idle" /\ db_ret = NoStoreCall
  /\ SaveBegin(TRUE, lib_arg.market, lib_arg.shape)
\* the next token of token_data.items()
RerunSaveToken ==
  /\ lib_op = "app" /\ db_pc = "tokens"
  /\ Cardinality(db_done) < Len(lib_arg.tokens)
  /\ LET next == lib_arg.tokens[Cardinality(db_done) + 1]
     IN SaveToken(next.token, next.series, "base")
RerunSaveCommit ==
  /\ lib_op = "app"
  /\ Cardinality(db_done) = Len(lib_arg.tokens)
  /\ SaveCommit

NextRerun ==
  \/ \E data \in CachedSeries : FetchSeries(data)
  \/ ScriptRerun
  \/ RerunSave
  \/ RerunSaveToken
  \/ RerunSaveCommit

NextReports ==
  \/ /\ lib_op = "idle"
     /\ \E r \in ChartResponses : BuildTokenData(<<"B","T","C">>, CHOOSE n \in Nows : TRUE, r)
  \/ /\ lib_op = "idle"
     /\ \E cols \in SUBSET StatColumns, n \in 0..MaxRows : CalculateStats(StatFrame(cols, n), n)
  \/ /\ lib_op = "idle"
     /\ \E m \in SUBSET StoredMarketRows, t \in SUBSET StoredTokenRows, a, b \in FilterDates :
          QueryStore(m, t, a, b)
  \/ /\ lib_op = "idle"
     /\ \E nk, pk \in BOOLEAN, n \in NewsAnswers, pa \in PanicAnswers :
          GetTrendingTopics(nk, pk, n, pa)

\* the local store alone, and the market data client alone
SpecStore == Init /\ [][NextStore]_vars
SpecApi == Init /\ [][NextApi]_vars
SpecLib == Init /\ [][NextLib]_vars
SpecPipeline == Init /\ [][NextPipeline]_vars
SpecReports == Init /\ [][NextReports]_vars
SpecRerun == Init /\ [][NextRerun]_vars


(***************************************************************************)
(* Claims about the local store.                                           *)
(***************************************************************************)
RowsOfKey(token, date) == {r \in BagToSet(token_tbl) : r.token = token /\ r.date = date}

\* C1: when save_data was called with the observed (token, date) at one price
\* and then called again with that key at another price, token_data holds
\* exactly one row for the key and the row has the second price.
C1_LastWriterWins ==
  (db_pc = "idle" /\ Len(hist) = 2 /\ hist[1] # hist[2]) =>
     \E r \in RowsOfKey(WatchToken, WatchDate) :
        /\ RowsOfKey(WatchToken, WatchDate) = {r}
        /\ CopiesIn(r, token_tbl) = 1
        /\ r.price = hist[2]

\* C2: in every state reached by save_data calls, token_data holds at most
\* one row per (token, date).
C2_KeyUnique ==
  \A r \in BagToSet(token_tbl) :
     /\ CopiesIn(r, token_tbl) = 1
     /\ \A q \in BagToSet(token_tbl) : TokenKey(q) = TokenKey(r) => q = r
\* two saves of the observed key at different prices have run
C2_Witness == db_pc = "idle" /\ Len(hist) = 2 /\ hist[1] # hist[2]

\* C3: no store operation lets an exception reach its caller, and a failed
\* get_historical_data gives (None, None).
C3_NoPropagation ==
  /\ ~db_ret.raised
  /\ (db_ret.op = "load" /\ db_ret.caught) => db_ret.none
\* a save failed on a key the table holds already and was swallowed
C3_Witness ==
  /\ db_ret.op = "save" /\ db_ret.caught
  /\ Len(hist) = 2 /\ RowsOfKey(WatchToken, WatchDate) # {}

(***************************************************************************)
(* Claims about the market data client.                                    *)
(***************************************************************************)
Gets(log) == {k \in DOMAIN log : log[k].ev = "get"}
Sleeps(log) == {k \in DOMAIN log : log[k].ev = "sleep"}
DirectRequest == api_op = "request" /\ api_arg.retries >= 1

\* C4: a call of make_api_request with retries = n >= 1 makes at most n HTTP
\* attempts; when it returns, it returns the JSON of its first successful
\* attempt, which is its last attempt; when n attempts have all met HTTP 429 the
\* exception of the n-th is raised; no sleep follows the last attempt.
C4_RetryBound ==
  DirectRequest =>
    LET n == api_arg.retries
        last == req_log[Len(req_log)]
    IN /\ Cardinality(Gets(req_log)) <= n
       /\ req_pc = "returned" =>
            /\ last.ev = "get" /\ last.outcome = "ok"
            /\ api_ret = [kind |-> "json", body |-> last.body]
            /\ \A k \in Gets(req_log) : k # Len(req_log) => req_log[k].outcome # "ok"
       /\ (Cardinality(Gets(req_log)) = n /\ \A k \in Gets(req_log) : req_log[k].outcome = "h429")
            => /\ req_pc = "raised"
               /\ api_ret = [kind |-> "exception", of |-> "h429", i |-> n - 1]
               /\ last.ev = "get"
       /\ req_pc # "loop" => last.ev = "get"
\* three attempts of a call with retries = 3 have met HTTP 429
C4_Witness ==
  /\ DirectRequest /\ api_arg.retries = 3 /\ req_pc = "raised"
  /\ Cardinality(Gets(req_log)) = 3
  /\ \A k \in Gets(req_log) : req_log[k].outcome = "h429"

\* C5: an attempt that fails with no HTTP status while attempts remain is not
\* raised to the caller: a sleep and another attempt follow.
C5_TransientRetried ==
  DirectRequest =>
    \A k \in Gets(req_log) :
       (req_log[k].outcome = "neterr" /\ req_log[k].i < api_arg.retries - 1) =>
          /\ ~(req_pc = "raised" /\ k = Len(req_log))
          /\ k < Len(req_log) => req_log[k + 1].ev = "sleep"
\* C5 as amended: a failure with no HTTP status is raised at once, with no
\* sleep and no further attempt; a sleep follows an HTTP 429 only.
C5_TransientRaisedAtOnce ==
  DirectRequest =>
    /\ \A k \in Gets(req_log) :
          req_log[k].outcome = "neterr" =>
             /\ k = Len(req_log)
             /\ req_pc = "raised"
             /\ api_ret = [kind |-> "exception", of |-> "neterr", i |-> req_log[k].i]
    /\ \A k \in Sleeps(req_log) : k > 1 /\ req_log[k - 1].outcome = "h429"
\* the first of three attempts has met a timeout
C5_Witness ==
  /\ DirectRequest /\ api_arg.retries = 3
  /\ Len(req_log) = 1 /\ req_log[1].outcome = "neterr" /\ req_pc = "raised"

FetchDone == api_op \in {"token", "market"} /\ api_pc = "done"

\* C6: get_token_data and get_market_data give their caller a series, whatever
\* the provider did, and all columns of the series have one length.
C6_WellFormed ==
  FetchDone =>
    /\ api_ret.kind = "series"
    /\ Len(api_ret.market_cap) = Len(api_ret.date)
    /\ Len(api_ret.volume) = Len(api_ret.date)
    /\ api_op = "token" => Len(api_ret.price) = Len(api_ret.date)
    /\ api_op = "market" => Len(api_ret.btc_dominance) = Len(api_ret.date)
\* a provider answer with two price points, one without a market-cap point
C6_Witness ==
  /\ FetchDone /\ api_op = "token" /\ api_ret.path = "api"
  /\ Len(api_ret.price) = 2
  /\ api_ret.market_cap[1] # 0 /\ api_ret.market_cap[2] = 0

\* C7: a fallback series begins at the start of the window of the timeframe
\* asked and ends at the time of the request.
C7_FallbackCoversWindow ==
  (FetchDone /\ api_ret.path = "fallback") =>
     /\ api_ret.date[1] = api_loc.window.start
     /\ api_ret.date[Len(api_ret.date)] = api_arg.now
\* C7 as amended: a fallback series is 30 daily points, the last at the time
\* of the request and the first 29 days before it, whatever the timeframe.
C7_FallbackThirtyDays ==
  (FetchDone /\ api_ret.path = "fallback") =>
     /\ Len(api_ret.date) = 30
     /\ api_ret.date[30] = api_arg.now
     /\ api_ret.date[1] = <<api_arg.now[1] - 29 * 86400, api_arg.now[2]>>
     /\ \A k \in 1..29 : api_ret.date[k + 1][1] - api_ret.date[k][1] = 86400
\* a failed fetch over one year
C7_Witness ==
  /\ FetchDone /\ api_ret.path = "fallback" /\ api_arg.timeframe = "1y"
  /\ api_op = "market"

ResolutionMiss == api_op = "token" /\ api_pc = "done" /\ api_loc.token_id = NoneId

\* C8: when no provider id is found for the token, the caller of
\* get_token_data receives a failure, not a series, and the token is resolved
\* once.
C8_MissSurfaced ==
  ResolutionMiss => (api_ret.kind # "series" /\ api_loc.resolved = 1)
\* C8 as amended: when no provider id is found, the caller receives the
\* fallback series; the token is resolved once and no market chart is asked.
C8_MissFallsBack ==
  ResolutionMiss =>
     /\ api_ret.kind = "series" /\ api_ret.path = "fallback"
     /\ Len(api_ret.date) = 30
     /\ api_loc.resolved = 1
     /\ api_loc.urls = <<"list">>
\* a symbol that neither the table nor the coin list knows
C8_Witness == ResolutionMiss /\ api_arg.symbol = <<"N","O","P","E">> /\ api_http = 1

StaticIds(symbol) == {e[2] : e \in {x \in SymbolToId : x[1] = Upper(symbol)}}

\* C9: for a symbol whose upper-case form is in the mapping table,
\* _get_token_id returns the table's id, whatever the case of the letters, and
\* issues no HTTP request.
C9_StaticHit ==
  /\ (api_op = "resolve" /\ StaticIds(api_arg.symbol) # {}) =>
        /\ api_pc = "done"
        /\ api_ret.kind = "id" /\ api_ret.id \in StaticIds(api_arg.symbol)
        /\ api_http = 0
  /\ (api_op = "token" /\ StaticIds(api_arg.symbol) # {}) =>
        /\ api_loc.token_id \in StaticIds(api_arg.symbol)
        /\ api_loc.urls = <<"chart">>
\* a lower-case symbol of the table has been resolved
C9_Witness ==
  /\ api_op = "resolve" /\ api_pc = "done" /\ api_arg.symbol = <<"b","t","c">>
  /\ api_ret.id = "bitcoin"

\* the coins the provider listed in the request of a _get_token_id call
Listed ==
  IF req_pc = "returned" /\ req_val.kind = "json" /\ req_val.body.kind = "list"
  THEN req_val.body.coins ELSE <<>>
Matches == {i \in DOMAIN Listed : Upper(Listed[i].symbol) = Upper(api_arg.symbol)}

\* C10: _get_token_id gives an id or None, never an exception; for a symbol
\* that is not in the table it gives the id of the first listed coin whose
\* symbol matches without regard to case, and None exactly when no coin
\* matches or the coin-list request failed.
C10_ResolverOutcome ==
  (api_op = "resolve" /\ api_pc = "done") =>
     /\ api_ret.kind = "id"
     /\ StaticIds(api_arg.symbol) = {} =>
          /\ api_ret.id = NoneId <=> (req_pc = "raised" \/ Matches = {})
          /\ Matches # {} =>
               api_ret.id = Listed[CHOOSE i \in Matches : \A j \in Matches : i <= j].id
\* two listed coins match the symbol and differ in id
C10_Witness ==
  /\ api_op = "resolve" /\ api_pc = "done" /\ Cardinality(Matches) = 2
  /\ Listed[1].id # Listed[2].id

(***************************************************************************)
(* Claims about the computing functions.                                   *)
(***************************************************************************)
\* C11: calculate_date_range returns (start, end) with end the current time
\* and end - start exactly 1, 7, 30, 90, 365 days for 24h, 7d, 30d, 90d, 1y;
\* for All Time and any other text start is 2013-04-28 (second 0 of the model).
C11_Windows ==
  lib_op = "range" =>
    LET tf == lib_arg.timeframe
        days == [t \in {"24h", "7d", "30d", "90d", "1y"} |->
                   CASE t = "24h" -> 1 [] t = "7d" -> 7 [] t = "30d" -> 30
                     [] t = "90d" -> 90 [] OTHER -> 365]
    IN /\ lib_ret.end = lib_arg.now
       /\ tf \in DOMAIN days =>
            /\ lib_ret.end[1] - lib_ret.start[1] = days[tf] * 86400
            /\ lib_ret.end[2] = lib_ret.start[2]
       /\ tf \notin DOMAIN days => lib_ret.start = <<0, 0>>
\* one year has been asked
C11_Witness ==
  /\ lib_op = "range" /\ lib_arg.timeframe = "1y"
  /\ lib_ret.end[1] - lib_ret.start[1] = 365 * 86400

DerivedNames ==
  {"daily_return", "volatility", "market_cap_change", "volume_to_mcap",
   "price_7d_ma", "price_30d_ma", "market_cap_7d_ma", "market_cap_30d_ma",
   "volume_7d_ma", "volume_30d_ma"}
\* the rows of the argument in date order
ByDate(col) == SortValues(SortOrder(lib_arg.date), col)
LongRising ==
  /\ lib_op = "process" /\ Len(lib_arg.date) >= 30
  /\ \A i \in 2..Len(lib_arg.date) : ByDate(lib_arg.price)[i] > ByDate(lib_arg.price)[i - 1]
AllDefined ==
  /\ DerivedNames \subseteq DOMAIN lib_ret
  /\ \A c \in DerivedNames : \A i \in DOMAIN lib_ret[c] : lib_ret[c][i].k # "nan"

\* C12: for a series of 30 rows or more with strictly increasing prices,
\* every derived column of the normaliser's table is non-null in every row.
C12_Complete == LongRising => AllDefined
\* C12 as amended: for a series of 30 rows or more with strictly increasing
\* prices, every derived column is non-null in every row, except that
\* market_cap_change is null in a row when the market cap is 0 in that row, in
\* the row before it and in all rows after it, and volume_to_mcap is null in a
\* row when market cap and volume are both 0 in that row and all rows after it.
C12_CompleteButZeroTail ==
  LongRising =>
    LET n == Len(lib_arg.date)
        cap == ByDate(lib_arg.market_cap)
        vol == ByDate(lib_arg.volume)
    IN /\ DerivedNames \subseteq DOMAIN lib_ret
       /\ \A c \in DerivedNames \ {"market_cap_change", "volume_to_mcap"} :
             \A i \in 1..n : lib_ret[c][i].k # "nan"
       /\ \A i \in 1..n :
             lib_ret.market_cap_change[i].k = "nan"
                <=> \A j \in i..n : j > 1 => (cap[j] = 0 /\ cap[j - 1] = 0)
       /\ \A i \in 1..n :
             lib_ret.volume_to_mcap[i].k = "nan"
                <=> \A j \in i..n : cap[j] = 0 /\ vol[j] = 0
\* 30 rows in descending date order: the 30-day average of the last row by
\* date has filled the 29 rows before it
C12_Witness ==
  /\ LongRising /\ Len(lib_arg.date) = 30 /\ lib_arg.date[1] = <<30, 0>>
  /\ \A i \in DOMAIN lib_arg.market_cap : lib_arg.market_cap[i] # 0
  /\ lib_ret.price_30d_ma[1] = lib_ret.price_30d_ma[30]
  /\ lib_ret.price_30d_ma[1].k = "num"

\* C13: in every row where the market cap is 0 the normaliser's
\* volume_to_mcap is the undefined sentinel (null), never the outcome of a
\* division by zero.
C13_GuardedRatio ==
  lib_op = "process" =>
    \A i \in DOMAIN lib_ret.market_cap :
       lib_ret.market_cap[i] = 0 => lib_ret.volume_to_mcap[i] = NaN

Forecast == lib_op = "predict" /\ lib_ret.kind = "forecast"

C15_LowerBoundNonNegative ==
  Forecast => \A i \in DOMAIN lib_ret.lower_bound : lib_ret.lower_bound[i] >= 0

\* C16: the forecast step gives a result structure with date, predicted_price
\* and bounds, never an error, also when the forecasting library fails.
C16_ForecastDegrades ==
  (lib_op = "predict" /\ lib_arg.model_type \in {"ARIMA", "LSTM", "Prophet"}) =>
     /\ lib_ret.kind = "forecast"
     /\ {"date", "predicted_price", "upper_bound", "lower_bound"} \subseteq DOMAIN lib_ret

\* the places of a text where 'X/10' or 'X out of 10' occurs: X is text[s..e]
IsNumberText(t, s, e) ==
  /\ s <= e /\ t[s] \in Digits /\ t[e] \in Digits
  /\ \A k \in s..e : t[k] \in Digits \cup {"."}
  /\ Cardinality({k \in s..e : t[k] = "."}) <= 1
Occurrences(t) ==
  {p \in (DOMAIN t) \X (DOMAIN t) :
     /\ IsNumberText(t, p[1], p[2])
     /\ \E j \in p[2] + 1..Len(t), m \in 1..Len(t) :
          /\ \A k \in p[2] + 1..j - 1 : t[k] = " "
          /\ \/ HasAt(t, j, <<"/">>) /\ \A k \in j + 1..m - 1 : t[k] = " "
             \/ HasAt(t, j, <<"o", "u", "t", " ", "o", "f">>) /\ \A k \in j + 6..m - 1 : t[k] = " "
          /\ m > j /\ (HasAt(t, j, <<"/">>) \/ m >= j + 6)
          /\ HasAt(t, m, <<"1", "0">>)}
\* the number that follows the first word 'rating' of a lower-case text, as
\* a place text[s..e]: s is the first digit after the word and the number runs
\* as far as digits, one point and digits go
Followers(t) ==
  {p \in (DOMAIN t) \X (DOMAIN t) :
     /\ IsNumberText(t, p[1], p[2])
     /\ \E r \in 1..p[1] :
          /\ HasAt(t, r, <<"r", "a", "t", "i", "n", "g">>) /\ r + 6 <= p[1]
          /\ \A q \in 1..r - 1 : ~HasAt(t, q, <<"r", "a", "t", "i", "n", "g">>)
          /\ \A k \in r + 6..p[1] - 1 : t[k] \notin Digits
     /\ ~(p[2] + 1 \in DOMAIN t /\ t[p[2] + 1] \in Digits)
     /\ ~(p[2] + 2 \in DOMAIN t /\ t[p[2] + 1] = "." /\ t[p[2] + 2] \in Digits
          /\ \A k \in p[1]..p[2] : t[k] # ".")}
ValueAt(t, p) ==
  LET num == SubSeq(t, p[1], p[2])
      point == {k \in DOMAIN num : num[k] = "."}
      whole == IF point = {} THEN num ELSE SubSeq(num, 1, (CHOOSE k \in point : TRUE) - 1)
      frac == IF point = {} THEN <<>> ELSE SubSeq(num, (CHOOSE k \in point : TRUE) + 1, Len(num))
  IN [i |-> IntOf(whole), f |-> StripZeros(frac)]

RatingNames == {"security_rating", "growth_rating", "risk_rating", "tech_rating"}
TextNames == {"security", "growth", "risk", "technology", "summary"}

\* C18: each of the four ratings analyze_whitepaper returns is in [0, 10].
C18_RatingsInRange ==
  lib_op = "analyze" =>
    \A n \in RatingNames :
       lib_ret[n].i < 10 \/ (lib_ret[n].i = 10 /\ lib_ret[n].f = <<>>)

\* C19: analyze_whitepaper returns the nine fields whatever fails; when there
\* is no credential or one of the five generation calls fails, every field
\* is the locally generated one; otherwise every field is from the model.
C19_WholeFallback ==
  lib_op = "analyze" =>
    /\ DOMAIN lib_ret = RatingNames \cup TextNames
    /\ (~lib_arg.key \/ \E k \in 1..5 : ~lib_arg.runs[k].ok) =>
          /\ \A n \in TextNames : lib_ret[n].src = "template"
          /\ \E d \in MockDraws :
                /\ lib_ret.security_rating = d.security /\ lib_ret.growth_rating = d.growth
                /\ lib_ret.risk_rating = d.risk /\ lib_ret.tech_rating = d.tech
    /\ (lib_arg.key /\ \A k \in 1..5 : lib_arg.runs[k].ok) =>
          \A n \in TextNames : lib_ret[n].src = "llm"
\* four analyses were generated and the summary call failed, after a failed
\* download
C19_Witness ==
  /\ lib_op = "analyze" /\ lib_arg.key /\ lib_arg.url # "" /\ ~lib_arg.download.ok
  /\ \A k \in 1..4 : lib_arg.runs[k].ok
  /\ ~lib_arg.runs[5].ok
  /\ lib_ret.security.src = "template"

(***************************************************************************)
(* Claims about the "Get data" step.                                       *)
(***************************************************************************)
\* C20: after the normalised series were saved to a reachable empty store,
\* get_historical_data with no date filter returns the market rows handed
\* and, for every token handed, its (token, date, price, market_cap, volume)
\* rows, in ascending date order, dates as the store keeps them.
C20_RoundTrip ==
  (lib_op = "pipeline" /\ db_init /\ db_ret.op = "load" /\ ~db_ret.caught) =>
     /\ db_ret.market = WithDatetimes(MarketRows(RowsOf(lib_ret.market, MarketColumns)))
     /\ \A t \in DOMAIN lib_ret.tokens :
          lib_ret.tokens[t].date # <<>> =>
             /\ t \in DOMAIN db_ret.tokens
             /\ db_ret.tokens[t]
                  = WithDatetimes(TokenRows(t, RowsOf(lib_ret.tokens[t], TokenColumns)))

\* the longest sleep that random.uniform(0, 1) allows above the doubling
\* term, in half seconds
MaxJitter == 2

\* C21: in a call of make_api_request, the attempt i (from 0, below retries - 1)
\* that meets HTTP 429 is followed by exactly one sleep, whose duration lies
\* between backoff * 2^i and backoff * 2^i + 1 second, and only then by the
\* attempt i + 1; every attempt but the first is preceded by such a sleep.
C21_BackoffSchedule ==
  /\ \A k \in Gets(req_log) :
       (req_log[k].outcome = "h429" /\ req_log[k].i < req_retries - 1) =>
          /\ k < Len(req_log)
          /\ req_log[k + 1].ev = "sleep"
          /\ req_log[k + 1].t >= BackoffFactor * Pow2(req_log[k].i)
          /\ req_log[k + 1].t <= BackoffFactor * Pow2(req_log[k].i) + MaxJitter
          /\ k + 2 <= Len(req_log) =>
               /\ req_log[k + 2].ev = "get"
               /\ req_log[k + 2].i = req_log[k].i + 1
  /\ \A k \in Gets(req_log) :
       req_log[k].i > 0 =>
          /\ k >= 3
          /\ req_log[k - 1].ev = "sleep"
          /\ req_log[k - 2].ev = "get"
          /\ req_log[k - 2].outcome = "h429"
          /\ req_log[k - 2].i = req_log[k].i - 1
\* two attempts in a row have met HTTP 429 and the third has been made: the
\* second sleep is at least twice the doubling term of the first
C21_Witness ==
  /\ api_op = "request" /\ api_arg.retries = 3
  /\ Len(req_log) = 5
  /\ req_log[1].outcome = "h429" /\ req_log[3].outcome = "h429"
  /\ req_log[2].ev = "sleep" /\ req_log[4].ev = "sleep"
  /\ req_log[4].t - req_log[2].t = BackoffFactor

\* C22: an attempt of make_api_request that meets an HTTP error status other
\* than 429 ends the call: its exception is raised at once, no sleep and no
\* attempt follows it, however many retries remain.
C22_OtherStatusRaised ==
  \A k \in Gets(req_log) :
     req_log[k].outcome = "herr" =>
        /\ k = Len(req_log)
        /\ req_pc = "raised"
        /\ req_val = [kind |-> "exception", of |-> "herr", i |-> req_log[k].i]
\* the first attempt of a call with retries = 3 has met such a status
C22_Witness ==
  /\ api_op = "request" /\ api_arg.retries = 3
  /\ req_pc = "raised"
  /\ Len(req_log) = 1
  /\ req_log[1].outcome = "herr"
  /\ api_ret = [kind |-> "exception", of |-> "herr", i |-> 0]

\* C30: a call of make_api_request with retries <= 0 makes no HTTP attempt and
\* returns None; a call with retries >= 1 that has ended has either returned a
\* JSON value or raised an exception.
C30_ZeroBudget ==
  api_op = "request" =>
    /\ api_arg.retries <= 0 =>
         /\ req_log = <<>>
         /\ api_http = 0
         /\ req_pc = "returned"
         /\ api_ret = NoVal
    /\ (api_arg.retries >= 1 /\ req_pc # "loop") =>
         \/ req_pc = "returned" /\ api_ret.kind = "json"
         \/ req_pc = "raised" /\ api_ret.kind = "exception"
\* a call with retries = 0 has returned
C30_Witness ==
  /\ api_op = "request" /\ api_arg.retries = 0
  /\ req_pc = "returned" /\ req_log = <<>>

\* the points of entries at the timestamp ts
PointsAt(entries, ts) == {k \in DOMAIN entries : entries[k][1] = ts}
\* column col of the series was read from entries by the timestamps of prices
AlignedTo(col, entries, prices) ==
  /\ Len(col) = Len(prices)
  /\ \A i \in DOMAIN prices :
       IF PointsAt(entries, prices[i][1]) = {}
       THEN col[i] = 0
       ELSE \E k \in PointsAt(entries, prices[i][1]) : col[i] = entries[k][2]

\* C23: the series get_token_data builds from a provider answer has one row
\* per price point, in the order of the answer; the market cap (the volume) of
\* row i is the value of a market-cap (volume) point of the answer at exactly
\* the timestamp of price point i, and 0 when the answer has no such point;
\* points at other timestamps leave no trace.
C23_TimestampAligned ==
  (lib_op = "get_token_data" /\ lib_ret.path = "api") =>
     LET r == lib_arg.response
     IN /\ Len(lib_ret.date) = Len(r.prices)
        /\ Len(lib_ret.price) = Len(r.prices)
        /\ \A i \in DOMAIN r.prices :
             /\ lib_ret.date[i] = <<r.prices[i][1] \div 1000, r.prices[i][1] % 1000>>
             /\ lib_ret.price[i] = r.prices[i][2]
        /\ AlignedTo(lib_ret.market_cap, r.market_caps, r.prices)
        /\ AlignedTo(lib_ret.volume, r.total_volumes, r.prices)
\* one price point; two market-cap points, the second at its timestamp and the
\* first at another; no volume point
C23_Witness ==
  /\ lib_op = "get_token_data" /\ lib_ret.path = "api"
  /\ Len(lib_arg.response.prices) = 1
  /\ Len(lib_arg.response.market_caps) = 2
  /\ lib_arg.response.market_caps[1][1] # lib_arg.response.prices[1][1]
  /\ lib_ret.market_cap = <<8>>
  /\ lib_ret.volume = <<0>>

\* the columns calculate_stats gives a trailing change for
ChangeColumns == {"price", "market_cap", "volume"}
\* the change over points is taken from the value points rows before the last
\* when there is one, else from the first value
ReferenceIs(series, change, points) ==
  /\ change.last = series[Len(series)]
  /\ change.ref = IF Len(series) > points THEN series[Len(series) - points] ELSE series[1]

\* C24: for every numeric column and N in {7, 30}, calculate_stats takes the
\* N-point change between the last value and the value N points before it when
\* the series has more than N points, and between the last and the first value
\* when it has at most N points; no non-empty series makes it index out of range.
C24_TrailingReference ==
  (lib_op = "calculate_stats" /\ lib_arg.len >= 1) =>
     /\ lib_ret.kind = "stats"
     /\ \A c \in DOMAIN lib_ret.tables \cap ChangeColumns :
          /\ ReferenceIs(lib_arg.df[c], lib_ret.tables[c].change7, 7)
          /\ ReferenceIs(lib_arg.df[c], lib_ret.tables[c].change30, 30)

\* the stored date d lies between the bounds asked for, a bound not given
\* leaving its side open
InRange(start, end, d) ==
  /\ (start = <<>> \/ start[1] <= d)
  /\ (end = <<>> \/ d <= end[1])
\* the series got holds exactly the rows of want, each once, dates ascending
\* and converted back to timestamps
IsSeriesOf(got, want) ==
  /\ Len(got) = Cardinality(want)
  /\ {got[i] : i \in DOMAIN got} = {[r EXCEPT !.date = <<r.date, 0>>] : r \in want}
  /\ \A i, j \in DOMAIN got : i < j => got[i].date[1] <= got[j].date[1]

\* C25: for every content of the store and every optional start and end,
\* get_historical_data returns, for each distinct token of the store, exactly
\* the rows of the token with start <= date <= end (both bounds included, a
\* bound not given unconstrained) in ascending date order, and the market rows
\* under the same filter; a token with no row in the range has an empty series.
C25_InclusiveFilter ==
  lib_op = "get_historical_data" =>
    LET market == BagToSet(lib_arg.market_tbl)
        token == BagToSet(lib_arg.token_tbl)
    IN /\ ~lib_ret.none
       /\ IsSeriesOf(lib_ret.market,
                     {r \in market : InRange(lib_arg.start, lib_arg.end, r.date)})
       /\ DOMAIN lib_ret.tokens = {r.token : r \in token}
       /\ \A t \in DOMAIN lib_ret.tokens :
            IsSeriesOf(lib_ret.tokens[t],
                       {r \in token : r.token = t /\ InRange(lib_arg.start, lib_arg.end, r.date)})
\* start = end = date 1: BTC has rows at the dates 0, 1 and 2 and keeps the one
\* at the bound, ETH has a row at date 0 alone and comes back empty
C25_Witness ==
  /\ lib_op = "get_historical_data"
  /\ lib_arg.start = <<1>> /\ lib_arg.end = <<1>>
  /\ Cardinality(BagToSet(lib_arg.token_tbl)) = 4
  /\ DOMAIN lib_ret.tokens = {"BTC", "ETH"}
  /\ Len(lib_ret.tokens["BTC"]) = 1
  /\ lib_ret.tokens["BTC"][1].date = <<1, 0>>
  /\ lib_ret.tokens["ETH"] = <<>>

\* C26: within one save_data call the market_data rows are written before any
\* token_data row and the tokens one after another: token_data changes only
\* in the token loop, which is entered only by a market_data write that went
\* through, so a call whose market_data write fails writes no token row; and
\* a step of the token loop, the failing one included, leaves the market rows
\* and every token row written before it in the store.
C26_PartialWrites ==
  [][/\ token_tbl' # token_tbl => (db_pc = "tokens" /\ market_tbl' = market_tbl)
     /\ market_tbl' # market_tbl => (db_pc = "idle" /\ db_pc' = "tokens" /\ token_tbl' = token_tbl)
     /\ (db_pc = "idle" /\ db_ret'.op = "save") => token_tbl' = token_tbl
     /\ db_pc = "tokens" => (market_tbl' = market_tbl /\ token_tbl \sqsubseteq token_tbl')]_vars
\* the write of the second token of a call has failed: the market row and the
\* row of the first token are in the store
C26_Witness ==
  /\ db_pc = "idle" /\ db_ret = SaveExcept
  /\ db_done = Tokens
  /\ Cardinality(BagToSet(market_tbl)) = 1
  /\ Cardinality(BagToSet(token_tbl)) = 1

\* C27: calling save_data two or more times in a row with identical market
\* and token series leaves the store as the first of these calls left it: the
\* same rows, none twice, none lost.
C27_RerunIdempotent ==
  (lib_op = "app" /\ lib_ret.runs >= 2) =>
     /\ market_tbl = lib_ret.first.market
     /\ token_tbl = lib_ret.first.token
     /\ \A r \in BagToSet(market_tbl) : CopiesIn(r, market_tbl) = 1
     /\ \A r \in BagToSet(token_tbl) : CopiesIn(r, token_tbl) = 1
\* the third call on series whose first call wrote a market row and two rows
\* of each token has ended, rejected on the keys it repeats
C27_Witness ==
  /\ lib_op = "app" /\ lib_ret.runs = 3
  /\ SaveEnded /\ db_ret = SaveExcept
  /\ Cardinality(BagToSet(market_tbl)) = 1
  /\ Cardinality(BagToSet(token_tbl)) = 4

\* every row of column c of the normaliser's table is undefined / is defined
AllNull(c) == \A i \in DOMAIN lib_ret[c] : lib_ret[c][i].k = "nan"
NoneNull(c) == \A i \in DOMAIN lib_ret[c] : lib_ret[c][i].k # "nan"
\* an average over w rows of an input of n rows: undefined in every row of
\* a shorter input, defined in every row otherwise
FilledFrom(c, w) ==
  IF Len(lib_arg.date) < w THEN AllNull(c) ELSE NoneNull(c)
LongAverages == {"price_30d_ma", "market_cap_30d_ma", "volume_30d_ma"}
ShortAverages == {"price_7d_ma", "market_cap_7d_ma", "volume_7d_ma"}
\* the daily return of row m of the prices (in date order) is a finite
\* number: the row is not the first and the price before it is not 0
FiniteReturn(price, m) == m >= 2 /\ price[m - 1] # 0
\* the rows, from row 11 on, that end ten finite daily returns in a row
EndsTenReturns(price) ==
  {j \in 11..Len(price) : \A m \in (j - 9)..j : FiniteReturn(price, m)}
\* a row of volatility is undefined exactly when none of the rows ends is at
\* or after it
NullPast(volatility, ends) ==
  \A i \in DOMAIN volatility : volatility[i].k = "nan" <=> \A j \in ends : j < i

\* C28: process_historical_data fills an undefined value only from a later
\* defined value of its column: every row of each 30d_ma column stays
\* undefined for an input of fewer than 30 rows, of each 7d_ma column for
\* fewer than 7 rows and of volatility for fewer than 11 rows; for longer
\* inputs no undefined value remains in those columns.
C28_ShortSeries ==
  lib_op = "process" =>
    /\ \A c \in LongAverages : FilledFrom(c, 30)
    /\ \A c \in ShortAverages : FilledFrom(c, 7)
    /\ FilledFrom("volatility", 11)
\* C28 as amended: the same for the averages; a row of volatility is
\* undefined exactly when no row at or after it, from row 11 on, ends ten
\* finite daily returns in a row, which is every row of an input of fewer than
\* 11 rows and, after a price of 0, rows of longer inputs too.
C28_ShortSeriesFiniteReturns ==
  lib_op = "process" =>
    /\ \A c \in LongAverages : FilledFrom(c, 30)
    /\ \A c \in ShortAverages : FilledFrom(c, 7)
    /\ NullPast(lib_ret.volatility, EndsTenReturns(ByDate(lib_arg.price)))
\* 11 rows with prices above 0: volatility and the 7-day average are filled in
\* the first row, the 30-day average is not
C28_Witness ==
  /\ lib_op = "process" /\ Len(lib_arg.date) = 11
  /\ \A i \in DOMAIN lib_arg.price : lib_arg.price[i] # 0
  /\ lib_ret.volatility[1].k = "num"
  /\ lib_ret.price_7d_ma[1].k = "num"
  /\ lib_ret.price_30d_ma[1].k = "nan"

\* what the provider p gave, None when it was not consulted
GaveOf(p) ==
  IF \E i \in DOMAIN lib_ret.asked : lib_ret.asked[i].provider = p
  THEN lib_ret.asked[CHOOSE i \in DOMAIN lib_ret.asked : lib_ret.asked[i].provider = p].gave
  ELSE [kind |-> "none"]
Consulted(p) == \E i \in DOMAIN lib_ret.asked : lib_ret.asked[i].provider = p

\* C29: get_trending_topics never raises and never returns an empty result;
\* it consults the news provider first and only when its key is set, the
\* second provider only when the first yielded nothing and the second's key
\* is set, and returns the mock data only when both yielded nothing; the
\* result always has the keys topics, trending_tokens, sentiment_breakdown.
C29_FallbackChain ==
  lib_op = "trending" =>
    /\ lib_ret.ret.kind = "dict"
    /\ DOMAIN lib_ret.ret.value = {"topics", "trending_tokens", "sentiment_breakdown"}
    /\ \A k \in DOMAIN lib_ret.ret.value : lib_ret.ret.value[k] >= 1
    /\ Consulted("news") <=> lib_arg.news_key
    /\ Consulted("news") => lib_ret.asked[1].provider = "news"
    /\ Len(lib_ret.asked) <= 2
    /\ Consulted("panic") <=> (lib_arg.panic_key /\ GaveOf("news").kind = "none")
    /\ lib_ret.ret.of = "mock" <=> (GaveOf("news").kind = "none" /\ GaveOf("panic").kind = "none")
    /\ lib_ret.ret.of = "news" <=> GaveOf("news").kind = "dict"
    /\ lib_ret.ret.of = "panic" => lib_ret.ret = GaveOf("panic")
\* both keys set: the news provider answered with an article that names no
\* token, the second provider was consulted and its data are the result
C29_Witness ==
  /\ lib_op = "trending" /\ lib_arg.news_key /\ lib_arg.panic_key
  /\ lib_arg.news.kind = "json" /\ lib_arg.news.status = "ok"
  /\ lib_arg.news.articles = <<"plain">>
  /\ Len(lib_ret.asked) = 2
  /\ lib_ret.ret.of = "panic"
====
